---- MODULE Spec2Model ----
(***************************************************************************)
(* Model of the slate workflow of roblangTR/ugc_prototype:                 *)
(*   modules/slate_workflow.py   SlateWorkflow                             *)
(*   modules/video_stitcher.py   VideoStitcher                             *)
(*   modules/slate_generator.py  SlateGenerator                            *)
(*                                                                         *)
(* Strings are sequences of one-character strings, so that the string      *)
(* operations of the code (replace, upper, slicing, split, int, float,     *)
(* f-string formatting) are computed character by character.               *)
(* Durations are counted in tenths of a second.                            *)
(***************************************************************************)
EXTENDS Integers, Sequences, FiniteSets, TLC

\* ------------------------------------------------------------------------
\* Bounds of the model
\* ------------------------------------------------------------------------

\* longest identifier enumerated by the identifier specification
MaxGuidLen == 5

\* characters the enumerated identifiers are built from: hex digits of both
\* cases, a non-hex letter, the characters int() treats specially, and the
\* two separators validate_guid removes
GuidAlphabet == {"0", "a", "B", "x", "g", "_", "-", " "}

\* longest audio description of the sound specification
MaxAudioLen == 5

\* characters of the audio descriptions of the sound specification
AudioAlphabet == {"m", "U", "t", "e", "x"}

\* most languages in a list of the sound specification
MaxLanguages == 2

\* language names of the sound specification
LanguageNames == {<<"e", "n">>, <<"A", "r", "a", "b", "i", "c">>}

\* longest duration passed to image_to_video in the segment specification,
\* in tenths of a second
MaxSegmentDuration == 80

\* most fields of an output of the probing specification
MaxFields == 5
MaxRetries == 3
MaxTicks == 3
MaxDuration == 1250

\* the fields the outputs of the probing specification are built from
WidthFields == {<<"6", "4", "0">>, <<>>, <<"x">>}
HeightFields == {<<"3", "6", "0">>, <<"N", "/", "A">>}
RateFields == {<<"3", "0", "/", "1">>, <<"3", "0", "0", "0", "0", "/", "1", "0", "0", "1">>, <<"2", "5">>,
               <<"0", "/", "0">>, <<"a", "/", "1">>, <<"1", "/", "2", "/", "3">>}
DurationFields == {<<"5", ".", "0", "0", "0", "0", "0", "0">>, <<"N", "/", "A">>, <<>>}
ExtraField == <<"x">>

\* ------------------------------------------------------------------------
\* Python string primitives used by the code
\* ------------------------------------------------------------------------

\* the value of Op at the value of e, with e evaluated once (a local
\* variable assignment: v = e, then Op(v))
With(e, Op(_)) == CHOOSE r \in {Op(v) : v \in {e}} : TRUE

LowerDigits == <<"0", "1", "2", "3", "4", "5", "6", "7", "8", "9",
                 "a", "b", "c", "d", "e", "f">>

UpperDigits == <<"0", "1", "2", "3", "4", "5", "6", "7", "8", "9",
                 "A", "B", "C", "D", "E", "F">>

\* value of a character as a digit; 37 for a character that is no hex digit
\* (every such character is rejected in bases 10 and 16)
DigitValue(c) ==
    IF \E i \in 1..16 : LowerDigits[i] = c
    THEN (CHOOSE i \in 1..16 : LowerDigits[i] = c) - 1
    ELSE IF \E i \in 1..16 : UpperDigits[i] = c
         THEN (CHOOSE i \in 1..16 : UpperDigits[i] = c) - 1
         ELSE 37

IsSpace(c) == c \in {" ", "\t", "\n"}

\* str.replace(ch, '')
RemoveChar(s, ch) == SelectSeq(s, LAMBDA c : c # ch)

LowerLetters == <<"a", "b", "c", "d", "e", "f", "g", "h", "i", "j", "k", "l",
                  "m", "n", "o", "p", "q", "r", "s", "t", "u", "v", "w", "x",
                  "y", "z">>

UpperLetters == <<"A", "B", "C", "D", "E", "F", "G", "H", "I", "J", "K", "L",
                  "M", "N", "O", "P", "Q", "R", "S", "T", "U", "V", "W", "X",
                  "Y", "Z">>

\* str.upper() on one character
UpperChar(c) ==
    IF \E i \in 1..26 : LowerLetters[i] = c
    THEN UpperLetters[CHOOSE i \in 1..26 : LowerLetters[i] = c]
    ELSE c

\* str.lower() on one character
LowerChar(c) ==
    IF \E i \in 1..26 : UpperLetters[i] = c
    THEN LowerLetters[CHOOSE i \in 1..26 : UpperLetters[i] = c]
    ELSE c

\* str.lower()
Lower(s) == [i \in 1..Len(s) |-> LowerChar(s[i])]

\* sub in s
Contains(s, sub) ==
    \E i \in 0..(Len(s) - Len(sub)) : SubSeq(s, i + 1, i + Len(sub)) = sub

\* sep.join(list)
RECURSIVE Join(_, _)
Join(sep, list) ==
    IF list = <<>> THEN <<>>
    ELSE IF Len(list) = 1 THEN list[1]
         ELSE list[1] \o sep \o Join(sep, Tail(list))

\* str.upper()
Upper(s) == [i \in 1..Len(s) |-> UpperChar(s[i])]

\* s[:n]
Prefix(s, n) == SubSeq(s, 1, IF Len(s) < n THEN Len(s) ELSE n)

RECURSIVE LStrip(_)
LStrip(s) == IF s # <<>> /\ IsSpace(Head(s)) THEN LStrip(Tail(s)) ELSE s

RECURSIVE RStrip(_)
RStrip(s) ==
    With(s, LAMBDA v :
        IF v # <<>> /\ IsSpace(v[Len(v)])
        THEN RStrip(SubSeq(v, 1, Len(v) - 1))
        ELSE v)

\* str.strip()
Strip(s) == RStrip(LStrip(s))

\* the digits of int(): value of a run of digits and single underscores
RECURSIVE DigitsValue(_, _, _)
DigitsValue(t, base, acc) ==
    IF t = <<>> THEN acc
    ELSE IF Head(t) = "_" THEN DigitsValue(Tail(t), base, acc)
         ELSE DigitsValue(Tail(t), base, acc * base + DigitValue(Head(t)))

\* int(s, base) for base 10 or 16: surrounding whitespace is ignored, then an
\* optional sign, for base 16 an optional 0x / 0X prefix (which one
\* underscore may follow), then digits separated by single underscores.
\* ok = FALSE stands for ValueError.
PyIntDigits(t4, negative, base) ==
    IF /\ t4 # <<>>
       /\ t4[1] # "_"
       /\ t4[Len(t4)] # "_"
       /\ \A i \in 1..Len(t4) :
             \/ t4[i] = "_" /\ (i < Len(t4) => t4[i + 1] # "_")
             \/ t4[i] # "_" /\ DigitValue(t4[i]) < base
    THEN [ok |-> TRUE,
          val |-> IF negative THEN 0 - DigitsValue(t4, base, 0)
                  ELSE DigitsValue(t4, base, 0)]
    ELSE [ok |-> FALSE, val |-> 0]

PyIntPrefix(t2, negative, base) ==
    IF base = 16 /\ Len(t2) >= 2 /\ t2[1] = "0" /\ t2[2] \in {"x", "X"}
    THEN IF Len(t2) >= 3 /\ t2[3] = "_"
         THEN With(SubSeq(t2, 4, Len(t2)),
                   LAMBDA t4 : PyIntDigits(t4, negative, base))
         ELSE With(SubSeq(t2, 3, Len(t2)),
                   LAMBDA t4 : PyIntDigits(t4, negative, base))
    ELSE PyIntDigits(t2, negative, base)

PyInt(s, base) ==
    With(Strip(s), LAMBDA t1 :
        IF t1 # <<>> /\ Head(t1) \in {"+", "-"}
        THEN With(Tail(t1),
                  LAMBDA t2 : PyIntPrefix(t2, Head(t1) = "-", base))
        ELSE PyIntPrefix(t1, FALSE, base))

\* str(n) for an integer
RECURSIVE IntToStr(_)
IntToStr(n) ==
    IF n < 0 THEN <<"-">> \o IntToStr(0 - n)
    ELSE IF n < 10 THEN <<LowerDigits[n + 1]>>
         ELSE IntToStr(n \div 10) \o <<LowerDigits[(n % 10) + 1]>>

\* f"{n:02d}"
Pad2(n) == IF n >= 0 /\ n < 10 THEN <<"0">> \o IntToStr(n) ELSE IntToStr(n)

\* ------------------------------------------------------------------------
\* Identifier Extractor
\* ------------------------------------------------------------------------

\* a mutation of validate_guid without the length test
validate_guid_nolen(g) ==
    LET guid_clean == RemoveChar(RemoveChar(g, "-"), " ")
    IN  PyInt(Prefix(guid_clean, 4), 16).ok

validate_guid(g) ==
    LET guid_clean == RemoveChar(RemoveChar(g, "-"), " ")
    IN  IF Len(guid_clean) < 4 THEN FALSE
        ELSE PyInt(Prefix(guid_clean, 4), 16).ok

\* a mutation of extract_edit_number that leaves the letters as they are
extract_edit_number_asis(g) ==
    LET guid_clean == RemoveChar(RemoveChar(g, "-"), " ")
    IN  Prefix(guid_clean, 4)

\* a mutation of extract_edit_number that keeps the whole identifier
extract_edit_number_whole(g) ==
    Upper(RemoveChar(RemoveChar(g, "-"), " "))

extract_edit_number(g) ==
    LET guid_clean == Upper(RemoveChar(RemoveChar(g, "-"), " "))
    IN  Prefix(guid_clean, 4)

\* ------------------------------------------------------------------------
\* More Python primitives: split, float, dict.get
\* ------------------------------------------------------------------------

\* str.split(sep) for a one-character separator
RECURSIVE Split(_, _)
Split(s, sep) ==
    With(s, LAMBDA v :
        IF \A i \in 1..Len(v) : v[i] # sep THEN <<v>>
        ELSE With(CHOOSE k \in 1..Len(v) :
                      v[k] = sep /\ \A j \in 1..(k - 1) : v[j] # sep,
                  LAMBDA i : <<SubSeq(v, 1, i - 1)>>
                             \o Split(SubSeq(v, i + 1, Len(v)), sep)))

PyFloatDigits(pieces, negative) ==
    LET whole == pieces[1]
        frac == IF Len(pieces) = 2 THEN pieces[2] ELSE <<>>
        isDigits(t) == \A i \in 1..Len(t) : DigitValue(t[i]) < 10
        magnitude == DigitsValue(whole, 10, 0) * 10
                     + (IF frac = <<>> THEN 0 ELSE DigitValue(frac[1]))
    IN  IF /\ Len(pieces) <= 2
           /\ isDigits(whole) /\ isDigits(frac)
           /\ Len(whole) + Len(frac) > 0
        THEN [ok |-> TRUE,
              val |-> IF negative THEN 0 - magnitude ELSE magnitude]
        ELSE [ok |-> FALSE, val |-> 0]

\* float(s) for plain decimal text (an optional sign, digits, optionally a
\* point and more digits); the value is kept in tenths, finer digits are
\* dropped.  ok = FALSE stands for ValueError.
PyFloat(s) ==
    With(Strip(s), LAMBDA t1 :
        IF t1 # <<>> /\ Head(t1) \in {"+", "-"}
        THEN With(Split(Tail(t1), "."),
                  LAMBDA pieces : PyFloatDigits(pieces, Head(t1) = "-"))
        ELSE With(Split(t1, "."),
                  LAMBDA pieces : PyFloatDigits(pieces, FALSE)))

\* Python values that may be None: None, or a number
None == [t |-> "none", v |-> 0]
Num(n) == [t |-> "num", v |-> n]

\* dict.get(key, default)
Get(d, key, default) == IF key \in DOMAIN d THEN d[key] ELSE default

\* truthiness of a number-or-None
Truthy(x) == x.t = "num" /\ x.v # 0

\* a mutation of FloorDiv that rounds to the nearest integer
FloorDiv_round(a, b) ==
    IF b > 0 THEN (2 * a + b) \div (2 * b)
    ELSE (0 - 2 * a - b) \div (0 - 2 * b)

\* a // b on integers (floor division), b # 0
FloorDiv(a, b) == IF b > 0 THEN a \div b ELSE (0 - a) \div (0 - b)

Min(a, b) == IF a < b THEN a ELSE b

\* ------------------------------------------------------------------------
\* The media tools (ffprobe, ffmpeg) as the code sees them
\* ------------------------------------------------------------------------

\* how a run of an external tool can end: exit status 0, a non-zero exit
\* status (CalledProcessError under check=True), or the executable is not
\* there (FileNotFoundError)
ToolExits == {"ok", "nonzero", "notfound"}

\* what ffprobe prints for a clip under
\*   -select_streams v:0 -show_entries stream=width,height,r_frame_rate,duration
\*   -of csv=p=0
\* nothing when the file has no video stream; the duration entry is a
\* decimal number, N/A, or left out
ProbeStdout(c) ==
    IF ~c.video THEN <<>>
    ELSE IntToStr(c.width) \o <<",">> \o IntToStr(c.height) \o <<",">>
         \o IntToStr(c.fps_num) \o <<"/">> \o IntToStr(c.fps_den)
         \o (CASE c.duration_tag = "value" ->
                    <<",">> \o IntToStr(c.duration \div 10) \o <<".">>
                    \o IntToStr(c.duration % 10)
                    \o <<"0", "0", "0", "0", "0">>
               [] c.duration_tag = "N/A" -> <<",", "N", "/", "A">>
               [] OTHER -> <<>>)
         \o <<"\n">>

Fallback == [width |-> 1920, height |-> 1080, fps |-> 25, duration |-> 0]

\* a mutation of ProbeFields that takes nothing but four fields
ProbeFields_strict(parts) ==
    LET fail(e) == [exc |-> e, info |-> Fallback]
        rate(fps_parts) ==
            IF Len(fps_parts) # 2 THEN [exc |-> "none", val |-> 25]
            ELSE With(<<PyInt(fps_parts[1], 10), PyInt(fps_parts[2], 10)>>,
                      LAMBDA nd :
                        IF ~nd[1].ok \/ ~nd[2].ok
                        THEN [exc |-> "ValueError", val |-> 0]
                        ELSE IF nd[2].val = 0
                             THEN [exc |-> "ZeroDivisionError", val |-> 0]
                             ELSE [exc |-> "none",
                                   val |-> FloorDiv(nd[1].val, nd[2].val)])
    IN  IF Len(parts) # 4 THEN fail("ValueError")
        ELSE
        With(PyInt(parts[1], 10), LAMBDA width :
          IF ~width.ok THEN fail("ValueError")
          ELSE IF Len(parts) < 2 THEN fail("IndexError")
          ELSE With(PyInt(parts[2], 10), LAMBDA height :
            IF ~height.ok THEN fail("ValueError")
            ELSE IF Len(parts) < 3 THEN fail("IndexError")
            ELSE With(With(Split(parts[3], "/"), rate), LAMBDA fps_ :
              IF fps_.exc # "none" THEN fail(fps_.exc)
              ELSE With(IF Len(parts) > 3 THEN PyFloat(parts[4])
                        ELSE [ok |-> TRUE, val |-> 0],
                        LAMBDA dur :
                IF ~dur.ok THEN fail("ValueError")
                ELSE [exc |-> "none",
                      info |-> [width |-> width.val,
                                height |-> height.val,
                                fps |-> fps_.val,
                                duration |-> dur.val]]))))

\* what the try block of get_video_info makes of the fields of the output
ProbeFields(parts) ==
    LET fail(e) == [exc |-> e, info |-> Fallback]
        rate(fps_parts) ==
            IF Len(fps_parts) # 2 THEN [exc |-> "none", val |-> 25]
            ELSE With(<<PyInt(fps_parts[1], 10), PyInt(fps_parts[2], 10)>>,
                      LAMBDA nd :
                        IF ~nd[1].ok \/ ~nd[2].ok
                        THEN [exc |-> "ValueError", val |-> 0]
                        ELSE IF nd[2].val = 0
                             THEN [exc |-> "ZeroDivisionError", val |-> 0]
                             ELSE [exc |-> "none",
                                   val |-> FloorDiv(nd[1].val, nd[2].val)])
    IN  With(PyInt(parts[1], 10), LAMBDA width :
          IF ~width.ok THEN fail("ValueError")
          ELSE IF Len(parts) < 2 THEN fail("IndexError")
          ELSE With(PyInt(parts[2], 10), LAMBDA height :
            IF ~height.ok THEN fail("ValueError")
            ELSE IF Len(parts) < 3 THEN fail("IndexError")
            ELSE With(With(Split(parts[3], "/"), rate), LAMBDA fps_ :
              IF fps_.exc # "none" THEN fail(fps_.exc)
              ELSE With(IF Len(parts) > 3 THEN PyFloat(parts[4])
                        ELSE [ok |-> TRUE, val |-> 0],
                        LAMBDA dur :
                IF ~dur.ok THEN fail("ValueError")
                ELSE [exc |-> "none",
                      info |-> [width |-> width.val,
                                height |-> height.val,
                                fps |-> fps_.val,
                                duration |-> dur.val]]))))

\* the try block of get_video_info: exc is the exception it ends with
\* ("none" when it reaches the return)
ProbeTry(exit, stdout) ==
    IF exit = "nonzero"
    THEN [exc |-> "CalledProcessError", info |-> Fallback]
    ELSE IF exit = "notfound"
         THEN [exc |-> "FileNotFoundError", info |-> Fallback]
         ELSE With(Split(Strip(stdout), ","), ProbeFields)

\* a mutation of get_video_info whose handler catches only the tool's
\* non-zero exit
get_video_info_narrow(exit, stdout) ==
    With(ProbeTry(exit, stdout), LAMBDA t :
        IF t.exc = "CalledProcessError"
        THEN [raised |-> "none", info |-> Fallback]
        ELSE [raised |-> t.exc, info |-> t.info])

\* get_video_info: every exception of the try block is caught and answered
\* with the default profile
get_video_info(exit, stdout) ==
    With(ProbeTry(exit, stdout), LAMBDA t :
        IF t.exc # "none"
        THEN [raised |-> "none", info |-> Fallback]
        ELSE [raised |-> "none", info |-> t.info])

\* length of the silent audio track app/assets/silent_5s.aac, in tenths
SilentAudioLen == 50

NoSegment == [width |-> 0, height |-> 0, fps |-> 0, duration |-> 0]

\* a mutation of image_to_video that encodes at its default frame rate and
\* resolution whatever it is passed
image_to_video_defaults(duration, fps_, resolution_, exit) ==
    IF exit = "ok"
    THEN [raised |-> "none",
          segment |-> [width |-> 1920, height |-> 1080, fps |-> 25,
                       duration |-> Min(duration, SilentAudioLen)]]
    ELSE [raised |-> IF exit = "nonzero" THEN "RuntimeError"
                     ELSE "FileNotFoundError",
          segment |-> NoSegment]

\* image_to_video: the segment ffmpeg is asked for (-t, -r, -s, -shortest
\* against the silent track), and the exception the call ends with
image_to_video(duration, fps_, resolution_, exit) ==
    IF exit = "ok"
    THEN [raised |-> "none",
          segment |-> [width |-> resolution_[1], height |-> resolution_[2],
                       fps |-> fps_,
                       duration |-> Min(duration, SilentAudioLen)]]
    ELSE [raised |-> IF exit = "nonzero" THEN "RuntimeError"
                     ELSE "FileNotFoundError",
          segment |-> NoSegment]

\* what ffmpeg may have written to its standard error when it exits
\* non-zero: nothing, or some text
ToolStderr == {<<>>, <<"N", "o", " ", "s", "u", "c", "h", " ", "f", "i", "l", "e">>}

\* str(e) of the CalledProcessError
StrCalledProcessError == <<"n", "o", "n", "-", "z", "e", "r", "o", " ", "e", "x", "i", "t", " ", "s", "t", "a", "t", "u", "s", " ", "1">>

\* a mutation of FFmpegFailed whose message leaves the tool's output out
FFmpegFailed_bare(stderr_) == <<"F", "F", "m", "p", "e", "g", " ", "f", "a", "i", "l", "e", "d">>

\* the message of the RuntimeError image_to_video raises when ffmpeg exits
\* non-zero (lines 133-136)
FFmpegFailed(stderr_) ==
    <<"F", "F", "m", "p", "e", "g", " ", "f", "a", "i", "l", "e", "d", ":", " ">>
    \o (IF stderr_ # <<>> THEN stderr_ ELSE StrCalledProcessError)

\* the message of the RuntimeError concatenate_videos raises when ffmpeg
\* exits non-zero (lines 182-185)
ConcatenationFailed(stderr_) ==
    <<"F", "F", "m", "p", "e", "g", " ", "c", "o", "n", "c", "a", "t", "e", "n", "a", "t", "i", "o", "n", " ", "f", "a", "i", "l", "e", "d", ":", " ">>
    \o (IF stderr_ # <<>> THEN stderr_ ELSE StrCalledProcessError)

\* concatenate_videos: returns output_path, or ends with an exception
concatenate_videos(output_path, exit) ==
    IF exit = "ok"
    THEN [raised |-> "none", path |-> output_path]
    ELSE [raised |-> IF exit = "nonzero" THEN "RuntimeError"
                     ELSE "FileNotFoundError",
          path |-> <<>>]

\* ------------------------------------------------------------------------
\* One call of SlateWorkflow.generate_final_video
\* ------------------------------------------------------------------------

VARIABLES
    guid,               \* argument guid
    metadata,           \* argument metadata (a dict)
    cleanup,            \* argument cleanup
    output_video_path,  \* argument output_video_path
    clip,               \* what the file at original_video_path really holds
    files,              \* paths that exist on disk
    pc,                 \* step the call is at
    valid,              \* value validate_guid returned
    edit_number,        \* local edit_number
    video_info,         \* local video_info
    resolution,         \* local resolution
    fps,                \* local fps
    duration,           \* local duration
    duration_str,       \* local duration_str
    duration_with_slate, \* local duration_with_slate
    slate_gen,          \* resolution the SlateGenerator was constructed with
    slate_image,        \* size of the image generate_slate saved
    synth_args,         \* arguments image_to_video was called with
    segment,            \* the segment file ffmpeg wrote
    final_video,        \* local final_video
    result,             \* the returned dict
    raised,             \* exception the call ended with
    steps,              \* steps run so far, in order, each with its exception
    procs,              \* external programs run so far, in order
    written,            \* paths the call has written to
    deleted,            \* paths the call has unlinked
    cleanup_error,      \* whether the cleanup block logged a failure
    sound,              \* local sound
    slug,               \* local slug
    message,            \* message of the RuntimeError the call ended with
    stdout,             \* what ffprobe printed
    runs,               \* the calls of the two-call specification
    disk,               \* the work directory of the two-call specification:
                        \* for each path in it, the call that wrote it last
    slate_workflow,     \* app/main.py: the global slate_workflow
    request,            \* the HTTP request being handled
    response,           \* the HTTP response the handler ended with
    max_retries,        \* _generate_with_retry: local max_retries
    retry_delay,        \* local retry_delay
    attempt,            \* loop variable attempt (the next value it takes)
    calls,              \* how each call of model.generate_content ended
    sleeps,             \* the arguments of time.sleep, in order
    last_error,         \* local last_error
    generated,          \* how _generate_with_retry ended
    auth_instance,      \* modules/auth.py: the global _auth_instance
    token,              \* its field _token
    project_id,         \* its field project_id
    region,             \* its field region
    token_timestamp,    \* its field _token_timestamp, in minutes
    now,                \* datetime.now(), in minutes
    auth_call,          \* the last call of the auth module and how it ended
    initialized         \* whether a call of initialize_auth has returned

vars == <<guid, metadata, cleanup, clip, files, pc, valid, edit_number,
          video_info, resolution, fps, duration, duration_str,
          duration_with_slate, slate_gen, slate_image, synth_args, segment,
          final_video, result, raised, steps, procs, written, deleted,
          cleanup_error, sound, slug, message, stdout, output_video_path, runs,
          disk, slate_workflow, request, response,
          max_retries, retry_delay, attempt, calls, sleeps, last_error,
          generated, auth_instance, token, project_id, region,
          token_timestamp, now, auth_call, initialized>>

\* ---- the state of the web application and of the services ----

NoRequest == [op |-> "none"]
NoResponse == [status |-> 0, detail |-> <<>>]

httpVars == <<slate_workflow, request, response>>

\* no request has arrived
HttpIdle ==
    /\ slate_workflow = "None"
    /\ request = NoRequest
    /\ response = NoResponse

retryVars == <<max_retries, retry_delay, attempt, calls, sleeps, last_error,
               generated>>

NoException == [class |-> "none", status |-> 0, detail |-> <<>>]
NotGenerated == [state |-> "idle", value |-> <<>>, error |-> NoException]

\* _generate_with_retry has not been called
RetryIdle ==
    /\ max_retries = 0
    /\ retry_delay = 0
    /\ attempt = 0
    /\ calls = <<>>
    /\ sleeps = <<>>
    /\ last_error = NoException
    /\ generated = NotGenerated

authVars == <<auth_instance, token, project_id, region, token_timestamp,
              now, auth_call, initialized>>

\* an Optional[str]
NoneStr == [t |-> "none", s |-> ""]
Text(x) == [t |-> "str", s |-> x]

\* _token_timestamp = None
NoTimestamp == -1

NoCredentials == [token |-> NoneStr, project_id |-> NoneStr,
                  region |-> NoneStr]
NoBody == [form |-> "none", token |-> NoneStr, project_id |-> NoneStr,
           region |-> NoneStr, decode |-> "none"]
NoReply == [raises |-> "none", status |-> 0, body |-> NoBody]
NoAuthCall ==
    [method |-> "none", held |-> NoneStr, requests |-> 0, reply |-> NoReply,
     raised |-> NoException, value |-> NoneStr,
     credentials |-> NoCredentials, age |-> None]

\* lines 56-64: the fields a ThomsonReutersAuth is constructed with
NewAuth == [token |-> NoneStr, project_id |-> NoneStr, region |-> NoneStr,
            token_timestamp |-> NoTimestamp]

\* the auth module has been imported and nothing of it called (line 201)
AuthIdle ==
    /\ auth_instance = "None"
    /\ token = NoneStr
    /\ project_id = NoneStr
    /\ region = NoneStr
    /\ token_timestamp = NoTimestamp
    /\ now = 0
    /\ auth_call = NoAuthCall
    /\ initialized = FALSE

serviceVars == <<httpVars, retryVars, authVars>>

ServiceIdle == HttpIdle /\ RetryIdle /\ AuthIdle

\* ---- the paths of a call ----

BackgroundImagePath == <<"b", "g", ".", "j", "p", "g">>
OriginalVideoPath == <<"c", "l", "i", "p", ".", "m", "p", "4">>
OutputVideoPath == <<"f", "i", "n", "a", "l", ".", "m", "p", "4">>
WorkDir == <<"w", "o", "r", "k">>

\* the file a path names: "./" in front of a relative path names the same
\* file (one of the ways two spellings reach one file; str(Path) of the
\* work directory's own paths never has it)
Resolve(p) ==
    IF Len(p) > 2 /\ p[1] = "." /\ p[2] = "/" THEN SubSeq(p, 3, Len(p))
    ELSE p

\* a mutation of SlateImagePath that names the image without the edit code
SlateImagePath_fixed(e) ==
    WorkDir \o <<"/", "s", "l", "a", "t", "e">> \o <<".", "p", "n", "g">>

\* self.work_dir / f"slate_{edit_number}.png"
SlateImagePath(e) ==
    WorkDir \o <<"/", "s", "l", "a", "t", "e", "_">> \o e
    \o <<".", "p", "n", "g">>

\* self.work_dir / f"slate_{edit_number}.mp4"
SlateVideoPath(e) ==
    WorkDir \o <<"/", "s", "l", "a", "t", "e", "_">> \o e
    \o <<".", "m", "p", "4">>

\* ---- the inputs the workflow specification draws from ----

GuidInputs ==
    { <<"1", "2", "3", "4", "-", "5", "6", "7", "8", "-", "9", "A", "B", "C">>,
      <<"a", "b", "-", "c", "d", "-", "e", "f", "-", "1", "2">>,
      <<"1", "2", "-", "3">>,
      <<"g", "h", "i", "j", "-", "1", "2", "3", "4">>,
      <<"0", "x", "1", "2", "-", "3", "4", "5", "6">> }

\* duration_seconds of the metadata record, in tenths: null, 0, 10.5 s,
\* 55.3 s, 95 s
DurationInputs == {None, Num(0), Num(105), Num(553), Num(950)}

EmptyDict == [k \in {} |-> None]

\* audio_analysis of the metadata record: empty, "Muted", "wind"
AudioSamples == {<<>>, <<"M", "u", "t", "e", "d">>, <<"w", "i", "n", "d">>}

\* languages_detected of the metadata record: none, "en", "en" and "Arabic"
LanguageSamples == {<<>>, <<<<"e", "n">>>>, <<<<"e", "n">>, <<"A", "r", "a", "b", "i", "c">>>>}

MetadataInputs ==
    {EmptyDict} \cup {[duration_seconds |-> d] : d \in DurationInputs}
    \cup {[audio_analysis |-> <<"w", "i", "n", "d">>]}
    \cup {[duration_seconds |-> Num(105), audio_analysis |-> a,
           languages_detected |-> l] :
              a \in AudioSamples, l \in LanguageSamples}

Clip(w, h, n, d, dur, tag, v) ==
    [width |-> w, height |-> h, fps_num |-> n, fps_den |-> d,
     duration |-> dur, duration_tag |-> tag, video |-> v]

\* source clips: full HD at 25 fps; 720p at 29.97 fps; 720p at 30 fps in a
\* container whose stream carries no duration; a clip whose frame rate reads 0/0; a
\* file without a video stream; a clip whose duration entry is left out
ClipInputs ==
    { Clip(1920, 1080, 25, 1, 105, "value", TRUE),
      Clip(1280, 720, 30000, 1001, 950, "value", TRUE),
      Clip(1280, 720, 30, 1, 300, "N/A", TRUE),
      Clip(640, 360, 0, 0, 50, "value", TRUE),
      Clip(0, 0, 0, 1, 553, "value", FALSE),
      Clip(640, 360, 30, 1, 1200, "omitted", TRUE) }

NoInfo == [width |-> 0, height |-> 0, fps |-> 0, duration |-> 0]
NoArgs == [duration |-> 0, fps |-> 0, resolution |-> <<0, 0>>]
NoResult == [success |-> FALSE, edit_number |-> <<>>, final_video |-> <<>>,
             resolution |-> <<0, 0>>, duration_with_slate |-> <<>>,
             original_duration |-> <<>>]

StepOrder == <<"Validating", "Probing", "Rendering", "Synthesizing",
               "Concatenating", "CleaningUp">>

\* a mutation of Sound that looks for "mute" in the description as it is
Sound_cased(audio_analysis, languages) ==
    IF Contains(audio_analysis, <<"m", "u", "t", "e">>) \/ audio_analysis = <<>>
    THEN <<"M", "U", "T", "E">>
    ELSE IF languages # <<>> /\ Len(languages) > 0
         THEN <<"N", "A", "T", "U", "R", "A", "L", " ", "W", "I", "T", "H", " ">>
              \o Join(<<" ", "A", "N", "D", " ">>,
                      [i \in 1..Len(languages) |-> Upper(languages[i])])
              \o <<" ", "S", "P", "E", "E", "C", "H">>
         ELSE <<"N", "A", "T", "U", "R", "A", "L">>

\* lines 150-162: the sound field of the slate, from the audio description
\* and the detected languages of the metadata record
Sound(audio_analysis, languages) ==
    IF Contains(Lower(audio_analysis), <<"m", "u", "t", "e">>) \/ audio_analysis = <<>>
    THEN <<"M", "U", "T", "E">>
    ELSE IF languages # <<>> /\ Len(languages) > 0
         THEN <<"N", "A", "T", "U", "R", "A", "L", " ", "W", "I", "T", "H", " ">>
              \o Join(<<" ", "A", "N", "D", " ">>,
                      [i \in 1..Len(languages) |-> Upper(languages[i])])
              \o <<" ", "S", "P", "E", "E", "C", "H">>
         ELSE <<"N", "A", "T", "U", "R", "A", "L">>

\* a mutation of DurationLabel that does not reduce the seconds modulo 60
DurationLabel_nomod(d) ==
    IntToStr(d \div 600) \o <<":">> \o Pad2(d \div 10)

\* f"{minutes}:{seconds:02d}" of a duration d given in tenths:
\* minutes = int(d // 60), seconds = int(d % 60)
DurationLabel(d) ==
    IntToStr(d \div 600) \o <<":">> \o Pad2((d % 600) \div 10)

\* ---- the state when generate_final_video is entered ----
\* The workflow object has been constructed (the background image existed
\* then, ffmpeg answered); since then the background or the clip may have
\* gone, and slate files of an earlier call with cleanup=False may be left.

Init ==
    /\ guid \in GuidInputs
    /\ metadata \in MetadataInputs
    /\ cleanup \in BOOLEAN
    /\ clip \in ClipInputs
    /\ \E bg \in BOOLEAN, src \in BOOLEAN, stale \in BOOLEAN :
          files = (IF bg THEN {BackgroundImagePath} ELSE {})
                  \cup (IF src THEN {OriginalVideoPath} ELSE {})
                  \cup (IF stale
                        THEN {SlateImagePath(extract_edit_number(guid)),
                              SlateVideoPath(extract_edit_number(guid))}
                        ELSE {})
    /\ pc = "Validating"
    /\ valid = FALSE
    /\ edit_number = <<>>
    /\ video_info = NoInfo
    /\ resolution = <<0, 0>>
    /\ fps = 0
    /\ duration = None
    /\ duration_str = <<>>
    /\ duration_with_slate = <<>>
    /\ slate_gen = <<0, 0>>
    /\ slate_image = <<0, 0>>
    /\ synth_args = NoArgs
    /\ segment = NoSegment
    /\ final_video = <<>>
    /\ result = NoResult
    /\ raised = "none"
    /\ steps = <<>>
    /\ procs = <<>>
    /\ written = {}
    /\ deleted = {}
    /\ cleanup_error = FALSE
    /\ sound = <<>>
    /\ slug = <<>>
    /\ output_video_path = OutputVideoPath
    /\ message = <<>>
    /\ stdout = <<>>
    /\ runs = <<>>
    /\ disk = <<>>
    /\ ServiceIdle

\* the external programs run while the SlateWorkflow was constructed:
\* VideoStitcher.__init__ runs "ffmpeg -version" once (_verify_ffmpeg)
ConstructorProcs == <<[prog |-> "ffmpeg", exit |-> "ok", stderr |-> <<>>]>>

\* a mutation of Ran in which the program is run a second time
Ran_again(prog, exit, stderr_) ==
    procs \o <<[prog |-> prog, exit |-> exit, stderr |-> stderr_],
               [prog |-> prog, exit |-> exit, stderr |-> stderr_]>>

\* the log of external programs after subprocess.run(cmd, check=True,
\* capture_output=True) has run prog once
Ran(prog, exit, stderr_) ==
    Append(procs, [prog |-> prog, exit |-> exit, stderr |-> stderr_])

\* a mutation of Outcome in which an exception of a step is swallowed and
\* the call goes on with the next step
Outcome_swallow(err, next) ==
    /\ steps' = Append(steps, [step |-> pc, error |-> err])
    /\ pc' = next
    /\ UNCHANGED raised

\* how a step of generate_final_video ends: the function has no handler
\* around its steps, so an exception raised in a step ends the call with
\* that exception; otherwise the next step follows
Outcome(err, next) ==
    /\ steps' = Append(steps, [step |-> pc, error |-> err])
    /\ IF err # "none"
       THEN /\ pc' = "Failed"
            /\ raised' = err
       ELSE /\ pc' = next
            /\ UNCHANGED raised

\* lines 111-117: validate the identifier, extract the edit number
Validate ==
    /\ pc = "Validating"
    /\ valid' = validate_guid(guid)
    /\ edit_number' = IF valid' THEN extract_edit_number(guid)
                      ELSE edit_number
    /\ Outcome(IF valid' THEN "none" ELSE "ValueError", "Probing")
    /\ UNCHANGED <<guid, metadata, cleanup, clip, files, video_info,
                   resolution, fps, duration, duration_str,
                   duration_with_slate, slate_gen, slate_image, synth_args,
                   segment, final_video, result, procs, written, deleted,
                   cleanup_error>>
    /\ UNCHANGED <<runs, disk, message, stdout>>
    /\ UNCHANGED <<sound>>
    /\ UNCHANGED <<slug, output_video_path>>
    /\ UNCHANGED serviceVars

\* lines 119-124: probe the clip.  ffprobe can only succeed on a file that
\* is there.
Probe ==
    /\ pc = "Probing"
    /\ \E exit \in ToolExits :
          /\ exit = "ok" => OriginalVideoPath \in files
          /\ procs' = Ran("ffprobe", exit, <<>>)
          /\ stdout' = IF exit = "ok" THEN ProbeStdout(clip) ELSE <<>>
          /\ \E r \in {get_video_info(exit, stdout')} :
                 /\ IF r.raised = "none"
                    THEN /\ video_info' = r.info
                         /\ resolution' = <<r.info.width, r.info.height>>
                         /\ fps' = r.info.fps
                    ELSE UNCHANGED <<video_info, resolution, fps>>
                 /\ Outcome(r.raised, "Rendering")
    /\ UNCHANGED <<guid, metadata, cleanup, clip, files, valid, edit_number,
                   duration, duration_str, duration_with_slate, slate_gen,
                   slate_image, synth_args, segment, final_video, result,
                   written, deleted, cleanup_error>>
    /\ UNCHANGED <<runs, disk, message>>
    /\ UNCHANGED <<sound>>
    /\ UNCHANGED <<slug, output_video_path>>
    /\ UNCHANGED serviceVars

\* duration=5.0 passed to image_to_video, in tenths
SegmentDuration == 50

\* line 136: the default of metadata.get('slug', 'UNKNOWN-SLUG')
UnknownSlug == <<"U", "N", "K", "N", "O", "W", "N", "-", "S", "L", "U", "G">>

\* the 5 of "new_duration = duration + 5", in tenths
SlateSeconds == 50

\* lines 126-178: construct the SlateGenerator, build the slate fields
\* (duration and sound among them),
\* render and save the slate image.  generate_slate can fail while loading
\* the background or while saving; a failed save may leave the file it was
\* writing.
Render ==
    /\ pc = "Rendering"
    /\ slate_gen' = resolution
    /\ IF BackgroundImagePath \notin files
       THEN /\ Outcome("FileNotFoundError", "Synthesizing")
            /\ UNCHANGED <<slug, duration, duration_str, sound, files,
                           written, slate_image>>
       ELSE /\ slug' = Get(metadata, "slug", UnknownSlug)
            /\ duration' = Get(metadata, "duration_seconds", Num(0))
            /\ duration_str' = IF Truthy(duration')
                               THEN DurationLabel(duration'.v)
                               ELSE <<"0", ":", "0", "0">>
            /\ sound' = Sound(Get(metadata, "audio_analysis", <<>>),
                              Get(metadata, "languages_detected", <<>>))
            /\ \E outcome \in {"ok", "load_error", "save_error"} :
                  CASE outcome = "ok" ->
                         /\ files' = files \cup {SlateImagePath(edit_number)}
                         /\ written' =
                                written \cup {SlateImagePath(edit_number)}
                         /\ slate_image' = slate_gen'
                         /\ Outcome("none", "Synthesizing")
                    [] outcome = "load_error" ->
                         /\ Outcome("OSError", "Synthesizing")
                         /\ UNCHANGED <<files, written, slate_image>>
                    [] OTHER ->
                         /\ Outcome("OSError", "Synthesizing")
                         /\ files' \in
                              {files,
                               files \cup {SlateImagePath(edit_number)}}
                         /\ written' =
                                written \cup {SlateImagePath(edit_number)}
                         /\ UNCHANGED slate_image
    /\ UNCHANGED <<guid, metadata, cleanup, clip, valid, edit_number,
                   video_info, resolution, fps, duration_with_slate,
                   synth_args, segment, final_video, result, procs, deleted,
                   cleanup_error>>
    /\ UNCHANGED <<runs, disk, message, stdout>>
    /\ UNCHANGED output_video_path
    /\ UNCHANGED serviceVars

\* lines 180-190: turn the slate image into the slate segment.  ffmpeg can
\* only succeed when its input is there; a failed run may leave an output
\* file behind.
Synthesize ==
    /\ pc = "Synthesizing"
    /\ synth_args' = [duration |-> SegmentDuration, fps |-> fps,
                      resolution |-> resolution]
    /\ \E exit \in ToolExits, stderr_ \in ToolStderr :
          /\ exit = "ok" => SlateImagePath(edit_number) \in files
          /\ exit # "nonzero" => stderr_ = <<>>
          /\ procs' = Ran("ffmpeg", exit, stderr_)
          /\ message' = IF exit = "nonzero" THEN FFmpegFailed(stderr_)
                        ELSE message
          /\ \E r \in {image_to_video(SegmentDuration, fps, resolution,
                                       exit)} :
                 /\ IF r.raised = "none"
                    THEN /\ files' =
                               files \cup {SlateVideoPath(edit_number)}
                         /\ written' =
                               written \cup {SlateVideoPath(edit_number)}
                         /\ segment' = r.segment
                    ELSE /\ \E left \in BOOLEAN :
                               /\ files' = IF left
                                    THEN files
                                         \cup {SlateVideoPath(edit_number)}
                                    ELSE files
                               /\ written' = IF left
                                    THEN written
                                         \cup {SlateVideoPath(edit_number)}
                                    ELSE written
                         /\ UNCHANGED segment
                 /\ Outcome(r.raised, "Concatenating")
    /\ UNCHANGED <<guid, metadata, cleanup, clip, valid, edit_number,
                   video_info, resolution, fps, duration, duration_str,
                   duration_with_slate, slate_gen, slate_image, final_video,
                   result, deleted, cleanup_error>>
    /\ UNCHANGED <<runs, disk, stdout>>
    /\ UNCHANGED <<sound>>
    /\ UNCHANGED <<slug, output_video_path>>
    /\ UNCHANGED serviceVars

\* lines 192-205: concatenate segment and clip, then compute the new
\* duration; duration + 5 is a TypeError when duration is None.  ffmpeg can
\* only succeed when both inputs are there and the clip has the video
\* stream the filter graph names; it refuses an output named as one of its
\* inputs, and writes (-y) to whatever file output_path reaches otherwise.
Concatenate ==
    /\ pc = "Concatenating"
    /\ \E exit \in ToolExits, stderr_ \in ToolStderr :
          /\ exit = "ok" => /\ SlateVideoPath(edit_number) \in files
                            /\ OriginalVideoPath \in files
                            /\ clip.video
                            /\ output_video_path
                                  \notin {SlateVideoPath(edit_number),
                                          OriginalVideoPath}
          /\ exit # "nonzero" => stderr_ = <<>>
          /\ procs' = Ran("ffmpeg", exit, stderr_)
          /\ message' = IF exit = "nonzero"
                        THEN ConcatenationFailed(stderr_)
                        ELSE message
          /\ \E r \in {concatenate_videos(output_video_path, exit)},
                out \in {Resolve(output_video_path)} :
                 IF r.raised # "none"
                 THEN /\ \E left \in BOOLEAN :
                            /\ files' = IF left THEN files \cup {out}
                                        ELSE files
                            /\ written' = IF left THEN written \cup {out}
                                          ELSE written
                      /\ UNCHANGED <<final_video, duration_with_slate>>
                      /\ Outcome(r.raised, "CleaningUp")
                 ELSE /\ files' = files \cup {out}
                      /\ written' = written \cup {out}
                      /\ final_video' = r.path
                      /\ IF duration.t = "none"
                         THEN /\ UNCHANGED duration_with_slate
                              /\ Outcome("TypeError", "CleaningUp")
                         ELSE /\ duration_with_slate' =
                                    DurationLabel(duration.v + SlateSeconds)
                              /\ Outcome("none", "CleaningUp")
    /\ UNCHANGED <<guid, metadata, cleanup, clip, valid, edit_number,
                   video_info, resolution, fps, duration, duration_str,
                   slate_gen, slate_image, synth_args, segment, result,
                   deleted, cleanup_error>>
    /\ UNCHANGED <<runs, disk, stdout>>
    /\ UNCHANGED <<sound>>
    /\ UNCHANGED <<slug, output_video_path>>
    /\ UNCHANGED serviceVars

\* a mutation of CleanupBlock that unlinks the image only
CleanupBlock_imageonly(fs, img, vid, imgFails, vidFails) ==
    IF img \in fs /\ imgFails
    THEN [files |-> fs, failed |-> TRUE, raised |-> "none"]
    ELSE [files |-> fs \ {img}, failed |-> FALSE, raised |-> "none"]

\* a mutation of CleanupBlock without the except clause: a failing unlink
\* ends the call
CleanupBlock_propagate(fs, img, vid, imgFails, vidFails) ==
    IF img \in fs /\ imgFails
    THEN [files |-> fs, failed |-> TRUE, raised |-> "OSError"]
    ELSE IF vid \in fs /\ vidFails
         THEN [files |-> fs \ {img}, failed |-> TRUE, raised |-> "OSError"]
         ELSE [files |-> fs \ {img, vid}, failed |-> FALSE,
               raised |-> "none"]

\* a mutation of CleanupBlock in which each unlink has a guard of its own:
\* the segment is unlinked whatever became of the image
CleanupBlock_separate(fs, img, vid, imgFails, vidFails) ==
    [files |-> (fs \ (IF imgFails THEN {} ELSE {img}))
                  \ (IF vidFails THEN {} ELSE {vid}),
     failed |-> (img \in fs /\ imgFails) \/ (vid \in fs /\ vidFails),
     raised |-> "none"]

\* the guarded cleanup block (lines 209-216): the image is unlinked first,
\* the segment second; the first failing unlink ends the block in its
\* except clause, which logs and raises nothing
CleanupBlock(fs, img, vid, imgFails, vidFails) ==
    IF img \in fs /\ imgFails
    THEN [files |-> fs, failed |-> TRUE, raised |-> "none"]
    ELSE IF vid \in fs /\ vidFails
         THEN [files |-> fs \ {img}, failed |-> TRUE, raised |-> "none"]
         ELSE [files |-> fs \ {img, vid}, failed |-> FALSE,
               raised |-> "none"]

\* lines 207-225: delete the intermediate files if asked to, return the
\* result
CleanUp ==
    /\ pc = "CleaningUp"
    /\ \E imgFails \in BOOLEAN, vidFails \in BOOLEAN :
          LET b == IF cleanup
                   THEN CleanupBlock(files, SlateImagePath(edit_number),
                                     SlateVideoPath(edit_number),
                                     imgFails, vidFails)
                   ELSE [files |-> files, failed |-> FALSE,
                         raised |-> "none"]
          IN  /\ files' = b.files
              /\ deleted' = deleted \cup (files \ b.files)
              /\ cleanup_error' = b.failed
              /\ result' = IF b.raised = "none"
                           THEN [success |-> TRUE,
                                 edit_number |-> edit_number,
                                 final_video |-> final_video,
                                 resolution |-> resolution,
                                 duration_with_slate |-> duration_with_slate,
                                 original_duration |-> duration_str]
                           ELSE result
              /\ Outcome(b.raised, "Done")
    /\ UNCHANGED <<guid, metadata, cleanup, clip, valid, edit_number,
                   video_info, resolution, fps, duration, duration_str,
                   duration_with_slate, slate_gen, slate_image, synth_args,
                   segment, final_video, procs, written>>
    /\ UNCHANGED <<runs, disk, message, stdout>>
    /\ UNCHANGED <<sound>>
    /\ UNCHANGED <<slug, output_video_path>>
    /\ UNCHANGED serviceVars

Next == Validate \/ Probe \/ Render \/ Synthesize \/ Concatenate \/ CleanUp

Spec == Init /\ [][Next]_vars

\* ------------------------------------------------------------------------
\* generate_final_video for the output paths a caller can pass
\* ------------------------------------------------------------------------

\* output_video_path of a call with edit code e: a file outside the work
\* directory; the slate segment's own path; the slate segment's file under
\* another spelling
OutputPathInputs(e) ==
    {OutputVideoPath, SlateVideoPath(e), <<".", "/">> \o SlateVideoPath(e)}

InitOutput ==
    /\ guid = <<"1", "2", "3", "4", "-", "5", "6", "7", "8", "-", "9", "A", "B", "C">>
    /\ metadata \in {EmptyDict, [duration_seconds |-> Num(105)]}
    /\ cleanup \in BOOLEAN
    /\ clip \in ClipInputs
    /\ \E bg \in BOOLEAN, src \in BOOLEAN, stale \in BOOLEAN :
          files = (IF bg THEN {BackgroundImagePath} ELSE {})
                  \cup (IF src THEN {OriginalVideoPath} ELSE {})
                  \cup (IF stale
                        THEN {SlateImagePath(extract_edit_number(guid)),
                              SlateVideoPath(extract_edit_number(guid))}
                        ELSE {})
    /\ pc = "Validating"
    /\ valid = FALSE
    /\ edit_number = <<>>
    /\ video_info = NoInfo
    /\ resolution = <<0, 0>>
    /\ fps = 0
    /\ duration = None
    /\ duration_str = <<>>
    /\ duration_with_slate = <<>>
    /\ slate_gen = <<0, 0>>
    /\ slate_image = <<0, 0>>
    /\ synth_args = NoArgs
    /\ segment = NoSegment
    /\ final_video = <<>>
    /\ result = NoResult
    /\ raised = "none"
    /\ steps = <<>>
    /\ procs = <<>>
    /\ written = {}
    /\ deleted = {}
    /\ cleanup_error = FALSE
    /\ sound = <<>>
    /\ slug = <<>>
    /\ output_video_path \in OutputPathInputs(extract_edit_number(guid))
    /\ message = <<>>
    /\ stdout = <<>>
    /\ runs = <<>>
    /\ disk = <<>>
    /\ ServiceIdle

SpecOutput == InitOutput /\ [][Next]_vars

\* ------------------------------------------------------------------------
\* The identifier functions on every identifier up to MaxGuidLen characters
\* and on the identifiers of the workflow specification
\* ------------------------------------------------------------------------

AllGuids == UNION {[1..n -> GuidAlphabet] : n \in 0..MaxGuidLen}

InitGuid ==
    /\ guid \in AllGuids \cup GuidInputs
    /\ metadata = EmptyDict
    /\ cleanup = FALSE
    /\ clip = Clip(1920, 1080, 25, 1, 105, "value", TRUE)
    /\ files = {}
    /\ pc = "validate_guid"
    /\ valid = FALSE
    /\ edit_number = <<>>
    /\ video_info = NoInfo
    /\ resolution = <<0, 0>>
    /\ fps = 0
    /\ duration = None
    /\ duration_str = <<>>
    /\ duration_with_slate = <<>>
    /\ slate_gen = <<0, 0>>
    /\ slate_image = <<0, 0>>
    /\ synth_args = NoArgs
    /\ segment = NoSegment
    /\ final_video = <<>>
    /\ result = NoResult
    /\ raised = "none"
    /\ steps = <<>>
    /\ procs = <<>>
    /\ written = {}
    /\ deleted = {}
    /\ cleanup_error = FALSE
    /\ sound = <<>>
    /\ slug = <<>>
    /\ output_video_path = OutputVideoPath
    /\ message = <<>>
    /\ stdout = <<>>
    /\ runs = <<>>
    /\ disk = <<>>
    /\ ServiceIdle

\* a call of validate_guid
ValidateGuidCall ==
    /\ pc = "validate_guid"
    /\ valid' = validate_guid(guid)
    /\ pc' = "extract_edit_number"
    /\ UNCHANGED <<guid, metadata, cleanup, clip, files, edit_number,
                   video_info, resolution, fps, duration, duration_str,
                   duration_with_slate, slate_gen, slate_image, synth_args,
                   segment, final_video, result, raised, steps, procs,
                   written, deleted, cleanup_error>>
    /\ UNCHANGED <<runs, disk, message, stdout>>
    /\ UNCHANGED <<sound>>
    /\ UNCHANGED <<slug, output_video_path>>
    /\ UNCHANGED serviceVars

\* a call of extract_edit_number
ExtractEditNumberCall ==
    /\ pc = "extract_edit_number"
    /\ edit_number' = extract_edit_number(guid)
    /\ pc' = "returned"
    /\ UNCHANGED <<guid, metadata, cleanup, clip, files, valid,
                   video_info, resolution, fps, duration, duration_str,
                   duration_with_slate, slate_gen, slate_image, synth_args,
                   segment, final_video, result, raised, steps, procs,
                   written, deleted, cleanup_error>>
    /\ UNCHANGED <<runs, disk, message, stdout>>
    /\ UNCHANGED <<sound>>
    /\ UNCHANGED <<slug, output_video_path>>
    /\ UNCHANGED serviceVars

NextGuid == ValidateGuidCall \/ ExtractEditNumberCall

SpecGuid == InitGuid /\ [][NextGuid]_vars

\* ------------------------------------------------------------------------
\* The sound field on every audio description up to MaxAudioLen characters
\* and every list of up to MaxLanguages languages
\* ------------------------------------------------------------------------

AudioTexts == UNION {[1..n -> AudioAlphabet] : n \in 0..MaxAudioLen}

LanguageLists == UNION {[1..n -> LanguageNames] : n \in 0..MaxLanguages}

\* the metadata record has both entries, one of them, or neither
InitAudio ==
    /\ guid = <<>>
    /\ \/ metadata = EmptyDict
       \/ \E a \in AudioTexts : metadata = [audio_analysis |-> a]
       \/ \E l \in LanguageLists : metadata = [languages_detected |-> l]
       \/ \E a \in AudioTexts, l \in LanguageLists :
             metadata = [audio_analysis |-> a, languages_detected |-> l]
    /\ cleanup = FALSE
    /\ clip = Clip(1920, 1080, 25, 1, 105, "value", TRUE)
    /\ files = {}
    /\ pc = "sound"
    /\ valid = FALSE
    /\ edit_number = <<>>
    /\ video_info = NoInfo
    /\ resolution = <<0, 0>>
    /\ fps = 0
    /\ duration = None
    /\ duration_str = <<>>
    /\ duration_with_slate = <<>>
    /\ slate_gen = <<0, 0>>
    /\ slate_image = <<0, 0>>
    /\ synth_args = NoArgs
    /\ segment = NoSegment
    /\ final_video = <<>>
    /\ result = NoResult
    /\ raised = "none"
    /\ steps = <<>>
    /\ procs = <<>>
    /\ written = {}
    /\ deleted = {}
    /\ cleanup_error = FALSE
    /\ sound = <<>>
    /\ slug = <<>>
    /\ output_video_path = OutputVideoPath
    /\ message = <<>>
    /\ stdout = <<>>
    /\ runs = <<>>
    /\ disk = <<>>
    /\ ServiceIdle

\* lines 150-162 on a metadata record
SoundCall ==
    /\ pc = "sound"
    /\ sound' = Sound(Get(metadata, "audio_analysis", <<>>),
                      Get(metadata, "languages_detected", <<>>))
    /\ pc' = "returned"
    /\ UNCHANGED <<guid, metadata, cleanup, clip, files, valid, edit_number,
                   video_info, resolution, fps, duration, duration_str,
                   duration_with_slate, slate_gen, slate_image, synth_args,
                   segment, final_video, result, raised, steps, procs,
                   written, deleted, cleanup_error>>
    /\ UNCHANGED <<runs, disk, message, stdout>>
    /\ UNCHANGED <<slug, output_video_path>>
    /\ UNCHANGED serviceVars

NextAudio == SoundCall

SpecAudio == InitAudio /\ [][NextAudio]_vars

\* ------------------------------------------------------------------------
\* get_video_info on outputs of ffprobe of up to MaxFields fields, well
\* formed and not
\* ------------------------------------------------------------------------

\* field i of an output with the given width, height, frame rate and
\* duration fields
FieldAt(w, h, r, d, i) ==
    CASE i = 1 -> w [] i = 2 -> h [] i = 3 -> r [] i = 4 -> d
      [] OTHER -> ExtraField

ProbeOutputs ==
    { Join(<<",">>, [i \in 1..n |-> FieldAt(w, h, r, d, i)]) \o <<"\n">> :
        w \in WidthFields, h \in HeightFields, r \in RateFields,
        d \in DurationFields, n \in 0..MaxFields }

InitProbe ==
    /\ guid = <<>>
    /\ metadata = EmptyDict
    /\ cleanup = FALSE
    /\ clip = Clip(1920, 1080, 25, 1, 105, "value", TRUE)
    /\ files = {OriginalVideoPath}
    /\ pc = "get_video_info"
    /\ valid = FALSE
    /\ edit_number = <<>>
    /\ video_info = NoInfo
    /\ resolution = <<0, 0>>
    /\ fps = 0
    /\ duration = None
    /\ duration_str = <<>>
    /\ duration_with_slate = <<>>
    /\ slate_gen = <<0, 0>>
    /\ slate_image = <<0, 0>>
    /\ synth_args = NoArgs
    /\ segment = NoSegment
    /\ final_video = <<>>
    /\ result = NoResult
    /\ raised = "none"
    /\ steps = <<>>
    /\ procs = <<>>
    /\ written = {}
    /\ deleted = {}
    /\ cleanup_error = FALSE
    /\ sound = <<>>
    /\ slug = <<>>
    /\ output_video_path = OutputVideoPath
    /\ message = <<>>
    /\ stdout \in ProbeOutputs
    /\ runs = <<>>
    /\ disk = <<>>
    /\ ServiceIdle

\* a call of get_video_info: ffprobe prints stdout and exits with 0, or it
\* exits non-zero, or it is not there
GetVideoInfoCall ==
    /\ pc = "get_video_info"
    /\ \E exit \in ToolExits :
          /\ procs' = Ran("ffprobe", exit, <<>>)
          /\ \E r \in {get_video_info(exit, stdout)} :
                 /\ video_info' = r.info
                 /\ raised' = r.raised
    /\ pc' = "returned"
    /\ UNCHANGED <<guid, metadata, cleanup, clip, files, valid, edit_number,
                   resolution, fps, duration, duration_str,
                   duration_with_slate, slate_gen, slate_image, synth_args,
                   segment, final_video, result, steps, written, deleted,
                   cleanup_error, sound, message, stdout, runs, disk>>
    /\ UNCHANGED <<slug, output_video_path>>
    /\ UNCHANGED serviceVars

NextProbe == GetVideoInfoCall

SpecProbe == InitProbe /\ [][NextProbe]_vars

\* ------------------------------------------------------------------------
\* image_to_video on every duration up to MaxSegmentDuration tenths of a
\* second
\* ------------------------------------------------------------------------

InitSegment ==
    /\ guid = <<>>
    /\ metadata = EmptyDict
    /\ cleanup = FALSE
    /\ clip = Clip(1920, 1080, 25, 1, 105, "value", TRUE)
    /\ files = {SlateImagePath(<<"1", "2", "3", "4">>)}
    /\ pc = "image_to_video"
    /\ valid = FALSE
    /\ edit_number = <<"1", "2", "3", "4">>
    /\ video_info = NoInfo
    /\ resolution = <<0, 0>>
    /\ fps = 0
    /\ duration = None
    /\ duration_str = <<>>
    /\ duration_with_slate = <<>>
    /\ slate_gen = <<0, 0>>
    /\ slate_image = <<0, 0>>
    /\ \E d \in 1..MaxSegmentDuration, f \in {25, 29},
          res \in {<<1920, 1080>>, <<1280, 720>>} :
          synth_args = [duration |-> d, fps |-> f, resolution |-> res]
    /\ segment = NoSegment
    /\ final_video = <<>>
    /\ result = NoResult
    /\ raised = "none"
    /\ steps = <<>>
    /\ procs = <<>>
    /\ written = {}
    /\ deleted = {}
    /\ cleanup_error = FALSE
    /\ sound = <<>>
    /\ slug = <<>>
    /\ output_video_path = OutputVideoPath
    /\ message = <<>>
    /\ stdout = <<>>
    /\ runs = <<>>
    /\ disk = <<>>
    /\ ServiceIdle

\* a call of image_to_video with the arguments synth_args
ImageToVideoCall ==
    /\ pc = "image_to_video"
    /\ \E exit \in ToolExits, stderr_ \in ToolStderr :
          /\ exit # "nonzero" => stderr_ = <<>>
          /\ procs' = Ran("ffmpeg", exit, stderr_)
          /\ message' = IF exit = "nonzero" THEN FFmpegFailed(stderr_)
                        ELSE message
          /\ \E r \in {image_to_video(synth_args.duration, synth_args.fps,
                                       synth_args.resolution, exit)} :
                 /\ segment' = r.segment
                 /\ raised' = r.raised
    /\ pc' = "returned"
    /\ UNCHANGED <<guid, metadata, cleanup, clip, files, valid, edit_number,
                   video_info, resolution, fps, duration, duration_str,
                   duration_with_slate, slate_gen, slate_image, synth_args,
                   final_video, result, steps, written, deleted,
                   cleanup_error, sound, stdout, runs, disk>>
    /\ UNCHANGED <<slug, output_video_path>>
    /\ UNCHANGED serviceVars

NextSegment == ImageToVideoCall

SpecSegment == InitSegment /\ [][NextSegment]_vars

\* ------------------------------------------------------------------------
\* The two duration labels of generate_final_video on every
\* duration_seconds up to MaxDuration tenths of a second
\* ------------------------------------------------------------------------

InitLabels ==
    /\ guid = <<>>
    /\ \/ metadata = EmptyDict
       \/ \E d \in 0 .. MaxDuration :
             metadata = [duration_seconds |-> Num(d)]
    /\ cleanup = FALSE
    /\ clip = Clip(1920, 1080, 25, 1, 105, "value", TRUE)
    /\ files = {}
    /\ pc = "labels"
    /\ valid = FALSE
    /\ edit_number = <<>>
    /\ video_info = NoInfo
    /\ resolution = <<0, 0>>
    /\ fps = 0
    /\ duration = None
    /\ duration_str = <<>>
    /\ duration_with_slate = <<>>
    /\ slate_gen = <<0, 0>>
    /\ slate_image = <<0, 0>>
    /\ synth_args = NoArgs
    /\ segment = NoSegment
    /\ final_video = <<>>
    /\ result = NoResult
    /\ raised = "none"
    /\ steps = <<>>
    /\ procs = <<>>
    /\ written = {}
    /\ deleted = {}
    /\ cleanup_error = FALSE
    /\ sound = <<>>
    /\ slug = <<>>
    /\ output_video_path = OutputVideoPath
    /\ message = <<>>
    /\ stdout = <<>>
    /\ runs = <<>>
    /\ disk = <<>>
    /\ ServiceIdle

\* lines 140-146 and 202-205 on a metadata record
DurationLabelsCall ==
    /\ pc = "labels"
    /\ duration' = Get(metadata, "duration_seconds", Num(0))
    /\ duration_str' = IF Truthy(duration')
                       THEN DurationLabel(duration'.v)
                       ELSE <<"0", ":", "0", "0">>
    /\ duration_with_slate' = DurationLabel(duration'.v + SlateSeconds)
    /\ pc' = "returned"
    /\ UNCHANGED <<guid, metadata, cleanup, clip, files, valid, edit_number,
                   video_info, resolution, fps, slate_gen, slate_image,
                   synth_args, segment, final_video, result, raised, steps,
                   procs, written, deleted, cleanup_error, sound, message,
                   stdout, runs, disk>>
    /\ UNCHANGED <<slug, output_video_path>>
    /\ UNCHANGED serviceVars

NextLabels == DurationLabelsCall

SpecLabels == InitLabels /\ [][NextLabels]_vars

\* ------------------------------------------------------------------------
\* Two calls of generate_final_video on one SlateWorkflow (one work
\* directory) at the same time.  This specification follows the files of
\* the work directory only: each step of a call is one atomic access to
\* them, and whether a step fails is left open.
\* ------------------------------------------------------------------------

Runs == {1, 2}

\* the identifiers of the two calls: two with the edit code 1234, one with
\* ABCD, one that is rejected
PairGuidInputs ==
    { <<"1", "2", "3", "4", "-", "5", "6", "7", "8", "-", "9", "A", "B", "C">>,
      <<"1", "2", "3", "4">>,
      <<"a", "b", "-", "c", "d", "-", "e", "f", "-", "1", "2">>,
      <<"1", "2", "-", "3">> }

\* the variables of the one-call specification
callVars == <<guid, metadata, cleanup, clip, files, pc, valid, edit_number,
              video_info, resolution, fps, duration, duration_str,
              duration_with_slate, slate_gen, slate_image, synth_args,
              segment, final_video, result, raised, steps, procs, written,
              deleted, cleanup_error, sound, slug, message, stdout,
              output_video_path>>

\* no call of the workflow is under way
CallIdle ==
    /\ guid = <<>>
    /\ metadata = EmptyDict
    /\ cleanup = FALSE
    /\ clip = Clip(1920, 1080, 25, 1, 105, "value", TRUE)
    /\ files = {}
    /\ pc = "idle"
    /\ valid = FALSE
    /\ edit_number = <<>>
    /\ video_info = NoInfo
    /\ resolution = <<0, 0>>
    /\ fps = 0
    /\ duration = None
    /\ duration_str = <<>>
    /\ duration_with_slate = <<>>
    /\ slate_gen = <<0, 0>>
    /\ slate_image = <<0, 0>>
    /\ synth_args = NoArgs
    /\ segment = NoSegment
    /\ final_video = <<>>
    /\ result = NoResult
    /\ raised = "none"
    /\ steps = <<>>
    /\ procs = <<>>
    /\ written = {}
    /\ deleted = {}
    /\ cleanup_error = FALSE
    /\ sound = <<>>
    /\ slug = <<>>
    /\ output_video_path = OutputVideoPath
    /\ message = <<>>
    /\ stdout = <<>>

InitPair ==
    /\ guid = <<>>
    /\ metadata = EmptyDict
    /\ cleanup = FALSE
    /\ clip = Clip(1920, 1080, 25, 1, 105, "value", TRUE)
    /\ files = {}
    /\ pc = "pair"
    /\ valid = FALSE
    /\ edit_number = <<>>
    /\ video_info = NoInfo
    /\ resolution = <<0, 0>>
    /\ fps = 0
    /\ duration = None
    /\ duration_str = <<>>
    /\ duration_with_slate = <<>>
    /\ slate_gen = <<0, 0>>
    /\ slate_image = <<0, 0>>
    /\ synth_args = NoArgs
    /\ segment = NoSegment
    /\ final_video = <<>>
    /\ result = NoResult
    /\ raised = "none"
    /\ steps = <<>>
    /\ procs = <<>>
    /\ written = {}
    /\ deleted = {}
    /\ cleanup_error = FALSE
    /\ sound = <<>>
    /\ slug = <<>>
    /\ output_video_path = OutputVideoPath
    /\ message = <<>>
    /\ stdout = <<>>
    /\ \E g \in [Runs -> PairGuidInputs], c \in [Runs -> BOOLEAN] :
          runs = [r \in Runs |->
                    [guid |-> g[r], cleanup |-> c[r], pc |-> "Validating",
                     edit_number |-> <<>>, touched |-> {}]]
    /\ disk = <<>>
    /\ ServiceIdle

\* an access to path p: what is done, and which call wrote the file that is
\* there (0: there is none)
Touch(op, p) ==
    [op |-> op, path |-> p,
     owner |-> IF p \in DOMAIN disk THEN disk[p] ELSE 0]

\* the work directory after call r has written p
WriteFile(p, r) ==
    [q \in DOMAIN disk \cup {p} |-> IF q = p THEN r ELSE disk[q]]

\* the work directory after p has been unlinked
Unlink(p) == [q \in DOMAIN disk \ {p} |-> disk[q]]

\* lines 111-117
PairValidate(r) ==
    /\ runs[r].pc = "Validating"
    /\ runs' = [runs EXCEPT ![r] =
                  IF validate_guid(runs[r].guid)
                  THEN [runs[r] EXCEPT
                          !.pc = "Probing",
                          !.edit_number = extract_edit_number(runs[r].guid)]
                  ELSE [runs[r] EXCEPT !.pc = "Failed"]]
    /\ UNCHANGED disk
    /\ UNCHANGED callVars
    /\ UNCHANGED serviceVars

\* lines 119-124: get_video_info reads the clip, no file of the work
\* directory, and raises nothing
PairProbe(r) ==
    /\ runs[r].pc = "Probing"
    /\ runs' = [runs EXCEPT ![r].pc = "Rendering"]
    /\ UNCHANGED disk
    /\ UNCHANGED callVars
    /\ UNCHANGED serviceVars

\* lines 126-178: generate_slate saves the slate image, or fails before or
\* while it writes
PairRender(r) ==
    /\ runs[r].pc = "Rendering"
    /\ LET img == SlateImagePath(runs[r].edit_number)
       IN  \E outcome \in {"ok", "load_error", "save_error"} :
             CASE outcome = "ok" ->
                    /\ disk' = WriteFile(img, r)
                    /\ runs' = [runs EXCEPT
                                  ![r].pc = "Synthesizing",
                                  ![r].touched = @ \cup {Touch("write", img)}]
               [] outcome = "load_error" ->
                    /\ UNCHANGED disk
                    /\ runs' = [runs EXCEPT ![r].pc = "Failed"]
               [] OTHER ->
                    /\ disk' \in {disk, WriteFile(img, r)}
                    /\ runs' = [runs EXCEPT
                                  ![r].pc = "Failed",
                                  ![r].touched = @ \cup {Touch("write", img)}]
    /\ UNCHANGED callVars
    /\ UNCHANGED serviceVars

\* lines 180-190: ffmpeg reads the slate image and writes the segment; it
\* can only succeed when the image is there
PairSynthesize(r) ==
    /\ runs[r].pc = "Synthesizing"
    /\ LET img == SlateImagePath(runs[r].edit_number)
           vid == SlateVideoPath(runs[r].edit_number)
       IN  \E ok \in BOOLEAN, left \in BOOLEAN :
             /\ ok => img \in DOMAIN disk /\ left
             /\ disk' = IF left THEN WriteFile(vid, r) ELSE disk
             /\ runs' = [runs EXCEPT
                           ![r].pc = IF ok THEN "Concatenating" ELSE "Failed",
                           ![r].touched =
                               @ \cup {Touch("read", img)}
                                 \cup (IF left THEN {Touch("write", vid)}
                                       ELSE {})]
    /\ UNCHANGED callVars
    /\ UNCHANGED serviceVars

\* lines 192-205: ffmpeg reads the segment and the clip and writes the
\* output, which is no file of the work directory
PairConcatenate(r) ==
    /\ runs[r].pc = "Concatenating"
    /\ LET vid == SlateVideoPath(runs[r].edit_number)
       IN  \E ok \in BOOLEAN :
             /\ ok => vid \in DOMAIN disk
             /\ runs' = [runs EXCEPT
                           ![r].pc = IF ok THEN "CleaningUp" ELSE "Failed",
                           ![r].touched = @ \cup {Touch("read", vid)}]
    /\ UNCHANGED disk
    /\ UNCHANGED callVars
    /\ UNCHANGED serviceVars

\* lines 208-211: with cleanup, unlink the slate image if it exists; a
\* failing unlink ends the cleanup block
PairCleanUpImage(r) ==
    /\ runs[r].pc = "CleaningUp"
    /\ LET img == SlateImagePath(runs[r].edit_number)
       IN  IF ~runs[r].cleanup
           THEN /\ runs' = [runs EXCEPT ![r].pc = "Done"]
                /\ UNCHANGED disk
           ELSE IF img \notin DOMAIN disk
                THEN /\ runs' = [runs EXCEPT ![r].pc = "CleaningUpSegment"]
                     /\ UNCHANGED disk
                ELSE \E fails \in BOOLEAN :
                       /\ disk' = IF fails THEN disk ELSE Unlink(img)
                       /\ runs' = [runs EXCEPT
                                     ![r].pc = IF fails THEN "Done"
                                               ELSE "CleaningUpSegment",
                                     ![r].touched =
                                         @ \cup {Touch("delete", img)}]
    /\ UNCHANGED callVars
    /\ UNCHANGED serviceVars

\* lines 212-216: unlink the segment if it exists
PairCleanUpSegment(r) ==
    /\ runs[r].pc = "CleaningUpSegment"
    /\ LET vid == SlateVideoPath(runs[r].edit_number)
       IN  IF vid \notin DOMAIN disk
           THEN /\ runs' = [runs EXCEPT ![r].pc = "Done"]
                /\ UNCHANGED disk
           ELSE \E fails \in BOOLEAN :
                  /\ disk' = IF fails THEN disk ELSE Unlink(vid)
                  /\ runs' = [runs EXCEPT
                                ![r].pc = "Done",
                                ![r].touched = @ \cup {Touch("delete", vid)}]
    /\ UNCHANGED callVars
    /\ UNCHANGED serviceVars

NextPair ==
    \E r \in Runs :
        \/ PairValidate(r)
        \/ PairProbe(r)
        \/ PairRender(r)
        \/ PairSynthesize(r)
        \/ PairConcatenate(r)
        \/ PairCleanUpImage(r)
        \/ PairCleanUpSegment(r)

SpecPair == InitPair /\ [][NextPair]_vars

\* ------------------------------------------------------------------------
\* The web application (app/main.py): the handlers of
\* POST /api/generate-slate and GET /api/outputs/{filename}
\* ------------------------------------------------------------------------

\* Python's exception classes that the handlers and the services meet,
\* each with its base class
BaseClass(cls) ==
    CASE cls = "HTTPException" -> "Exception"
      [] cls = "JSONDecodeError" -> "ValueError"
      [] cls = "ValueError" -> "Exception"
      [] cls = "AttributeError" -> "Exception"
      [] cls = "TypeError" -> "Exception"
      [] cls = "RuntimeError" -> "Exception"
      [] cls = "FileNotFoundError" -> "OSError"
      [] cls = "BrokenPipeError" -> "ConnectionError"
      [] cls = "ConnectionError" -> "OSError"
      [] cls = "TimeoutError" -> "OSError"
      [] cls = "OSError" -> "Exception"
      [] cls = "Exception" -> "BaseException"
      [] cls = "KeyboardInterrupt" -> "BaseException"
      [] cls = "AuthenticationError" -> "Exception"
      [] cls = "WorkspaceError" -> "Exception"
      [] cls = "RequestException" -> "OSError"
      [] cls = "Timeout" -> "RequestException"
      [] cls = "requests.ConnectionError" -> "RequestException"
      [] cls = "TooManyRedirects" -> "RequestException"
      [] cls = "HTTPError" -> "RequestException"
      [] cls = "requests.JSONDecodeError" -> "RequestException"
      [] OTHER -> "object"

\* isinstance(e, target) for an exception of class cls: what an except
\* clause tests
RECURSIVE IsInstance(_, _)
IsInstance(cls, target) ==
    IF cls = target THEN TRUE
    ELSE IF cls \in {"BaseException", "object"} THEN FALSE
    ELSE IsInstance(BaseClass(cls), target)

NoError == NoException
Error(class, detail) == [class |-> class, status |-> 0, detail |-> detail]
HTTPException(status_code, detail) ==
    [class |-> "HTTPException", status |-> status_code, detail |-> detail]

StatusText(status_code) ==
    CASE status_code = 400 -> "400"
      [] status_code = 404 -> "404"
      [] status_code = 500 -> "500"
      [] status_code = 503 -> "503"
      [] OTHER -> "0"

\* str(e): the message of an exception; Starlette's HTTPException prints
\* as "<status_code>: <detail>"
Str(e) ==
    IF e.class = "HTTPException"
    THEN <<StatusText(e.status), ": ">> \o e.detail
    ELSE e.detail

InvalidGuidDetail ==
    <<"Invalid GUID format. Please provide at least 4 hex characters.">>
WorkflowMissingDetail ==
    <<"Slate workflow not initialized (background image missing)">>

\* what a named file is when the handler looks at it: absent; present at
\* exists() and gone at open(); present and not JSON; a JSON array; a JSON
\* object
FileStates == {"missing", "vanishes", "notjson", "array", "object"}

\* how generate_final_video ends
WorkflowOutcomes == {"none", "ValueError", "FileNotFoundError", "RuntimeError"}

HttpGuidInputs == PairGuidInputs \cup GuidInputs

GenerateSlateRequests ==
    [op : {"generate_slate"}, guid : HttpGuidInputs,
     metadata_file : FileStates, original_video : {"missing", "present"},
     workflow : WorkflowOutcomes]

GetOutputRequests == [op : {"get_output"}, filename : FileStates]

\* a handler that returned
Returned(content) == [status |-> 200, detail |-> content]
\* a handler that raised HTTPException: FastAPI answers with its status
\* code and detail
Answered(e) == [status |-> e.status, detail |-> e.detail]

\* with open(path) as f: json.load(f), for a path that exists() held for
Load(file) ==
    CASE file = "vanishes" -> Error("FileNotFoundError", <<"No such file">>)
      [] file = "notjson" -> Error("JSONDecodeError", <<"Expecting value">>)
      [] OTHER -> NoError

\* lines 301-348: the body of the try block of generate_slate; the
\* exception it ends with, NoError when it returns
generate_slate_try(req) ==
    IF ~validate_guid(req.guid)
    THEN HTTPException(400, InvalidGuidDetail)
    ELSE IF req.metadata_file = "missing"
    THEN HTTPException(404, <<"Metadata file not found">>)
    ELSE IF Load(req.metadata_file) # NoError
    THEN Load(req.metadata_file)
    ELSE IF req.original_video = "missing"
    THEN HTTPException(404, <<"Original video not found">>)
    ELSE IF req.metadata_file = "array"
    THEN Error("AttributeError", <<"'list' object has no attribute 'get'">>)
    ELSE IF req.workflow # "none"
    THEN Error(req.workflow, <<"generate_final_video failed">>)
    ELSE NoError

\* lines 350-356: the except clauses of generate_slate, tried in order
generate_slate_except(e) ==
    IF IsInstance(e.class, "ValueError")
    THEN HTTPException(400, Str(e))
    ELSE IF IsInstance(e.class, "FileNotFoundError")
    THEN HTTPException(404, Str(e))
    ELSE IF IsInstance(e.class, "Exception")
    THEN HTTPException(500, Str(e))
    ELSE e

\* lines 278-356
generate_slate(req, workflow) ==
    IF workflow = "None"
    THEN Answered(HTTPException(503, WorkflowMissingDetail))
    ELSE With(generate_slate_try(req),
              LAMBDA e : IF e = NoError
                         THEN Returned(<<"success">>)
                         ELSE Answered(generate_slate_except(e)))

\* lines 258-268: the body of the try block of get_output
get_output_try(req) ==
    IF req.filename = "missing"
    THEN HTTPException(404, <<"File not found">>)
    ELSE Load(req.filename)

\* lines 270-274: the except clauses of get_output, tried in order
get_output_except(e) ==
    IF IsInstance(e.class, "FileNotFoundError")
    THEN HTTPException(404, <<"File not found">>)
    ELSE IF IsInstance(e.class, "Exception")
    THEN HTTPException(500, Str(e))
    ELSE e

\* lines 255-274
get_output(req) ==
    With(get_output_try(req),
         LAMBDA e : IF e = NoError
                    THEN Returned(<<"metadata">>)
                    ELSE Answered(get_output_except(e)))

\* a request has arrived; the application started with or without the
\* background image (lines 95-105)
InitHttp ==
    /\ CallIdle
    /\ runs = <<>>
    /\ disk = <<>>
    /\ RetryIdle
    /\ AuthIdle
    /\ slate_workflow \in {"None", "SlateWorkflow"}
    /\ request \in GenerateSlateRequests \cup GetOutputRequests
    /\ response = NoResponse

GenerateSlate ==
    /\ request.op = "generate_slate"
    /\ response = NoResponse
    /\ response' = generate_slate(request, slate_workflow)
    /\ UNCHANGED <<slate_workflow, request>>
    /\ UNCHANGED <<callVars, runs, disk, retryVars, authVars>>

GetOutput ==
    /\ request.op = "get_output"
    /\ response = NoResponse
    /\ response' = get_output(request)
    /\ UNCHANGED <<slate_workflow, request>>
    /\ UNCHANGED <<callVars, runs, disk, retryVars, authVars>>

NextHttp == GenerateSlate \/ GetOutput

SpecHttp == InitHttp /\ [][NextHttp]_vars

\* ------------------------------------------------------------------------
\* GeminiEnhancer._generate_with_retry (modules/gemini_enhancer.py)
\* ------------------------------------------------------------------------

\* the classes of the exceptions a call of model.generate_content, or the
\* reading of response.text, is given to raise
CallErrors ==
    {"BrokenPipeError", "ConnectionError", "OSError", "TimeoutError",
     "FileNotFoundError", "ValueError", "RuntimeError", "KeyboardInterrupt"}

\* the texts a call is given to answer with: their form (a JSON object,
\* a JSON object in a ```json fence, no JSON, a JSON array) and their body
ResponseTexts ==
    [form : {"object", "fenced", "notjson", "array"}, body : {"a", "b"}]

CallOutcomes ==
    {[raises |-> Error(cls, <<cls>>), text |-> <<>>] : cls \in CallErrors}
    \cup {[raises |-> NoException, text |-> txt] : txt \in ResponseTexts}

\* the JSON object a reply of form "object" or "fenced" holds: body "a" is
\* a full metadata record, body "b" one with a slug and nothing else the
\* slate uses
JsonObject(body) ==
    IF body = "a"
    THEN [clip_id |-> "a", slug |-> <<"G", "A", "Z", "A">>,
          duration_seconds |-> Num(105),
          audio_analysis |-> <<"w", "i", "n", "d">>,
          languages_detected |-> <<>>]
    ELSE [slug |-> <<"F", "I", "R", "E">>]

\* lines 325-333: the entries added to a parsed object that lacks them
RequiredFields(clip_id) ==
    [clip_id |-> clip_id, matched_shot_numbers |-> <<>>, is_slate |-> FALSE,
     is_part_of_various |-> FALSE]

\* a mutation of parse_json_response that lets the decoder's error out
parse_json_response_raise(response_text, clip_id) ==
    CASE response_text.form \in {"object", "fenced"} ->
           [raised |-> NoException,
            value |-> JsonObject(response_text.body) @@ RequiredFields(clip_id)]
      [] response_text.form = "notjson" ->
           [raised |-> Error("JSONDecodeError", <<"Expecting value">>),
            value |-> <<>>]
      [] OTHER ->
           [raised |-> Error("TypeError",
                             <<"list indices must be integers">>),
            value |-> <<>>]

\* lines 303-351: _parse_json_response; a text that json.loads rejects
\* gives the fallback record, a JSON array fails at result['clip_id']
parse_json_response(response_text, clip_id) ==
    CASE response_text.form \in {"object", "fenced"} ->
           [raised |-> NoException,
            value |-> JsonObject(response_text.body) @@ RequiredFields(clip_id)]
      [] response_text.form = "notjson" ->
           [raised |-> NoException,
            value |-> [clip_id |-> clip_id,
                       matched_shot_numbers |-> <<>>,
                       is_slate |-> FALSE,
                       is_part_of_various |-> FALSE,
                       original_description |-> "Unknown",
                       enhanced_description |-> response_text,
                       error |-> "Failed to parse structured response",
                       raw_response |-> response_text]]
      [] OTHER ->
           [raised |-> Error("TypeError",
                             <<"list indices must be integers">>),
            value |-> <<>>]

\* lines 267-280: the body of the try block, for a call that ended as o
generate_try(o) ==
    IF o.raises # NoException
    THEN [raised |-> o.raises, value |-> <<>>]
    ELSE parse_json_response(o.text, "clip")

\* line 281: except (BrokenPipeError, ConnectionError, OSError)
Retryable_any(cls) == IsInstance(cls, "Exception")
Retryable(cls) ==
    \/ IsInstance(cls, "BrokenPipeError")
    \/ IsInstance(cls, "ConnectionError")
    \/ IsInstance(cls, "OSError")

\* line 266: for attempt in range(max_retries)
AttemptRange(n) == 0 .. (n - 1)

\* line 283: if attempt < max_retries - 1
MoreAttempts_never(attempt_, n) == FALSE
MoreAttempts(attempt_, n) == attempt_ < n - 1

\* line 284: wait_time = retry_delay * (attempt + 1)
WaitTime_flat(retry_delay_, attempt_) == retry_delay_
WaitTime(retry_delay_, attempt_) == retry_delay_ * (attempt_ + 1)

\* lines 251-264: the call begins; GEMINI_MAX_RETRIES and
\* GEMINI_RETRY_DELAY_SECONDS are read from the environment
InitRetry ==
    /\ CallIdle
    /\ runs = <<>>
    /\ disk = <<>>
    /\ HttpIdle
    /\ AuthIdle
    /\ max_retries \in 0 .. MaxRetries
    /\ retry_delay \in {0, 5}
    /\ attempt = 0
    /\ calls = <<>>
    /\ sleeps = <<>>
    /\ last_error = NoException
    /\ generated = [state |-> "loop", value |-> <<>>, error |-> NoException]

\* lines 266-299: one pass of the loop body
Attempt ==
    /\ generated.state = "loop"
    /\ attempt \in AttemptRange(max_retries)
    /\ \E o \in CallOutcomes :
          /\ calls' = Append(calls, o)
          /\ \E r \in {generate_try(o)} :
                IF r.raised = NoException
                THEN /\ generated' = [state |-> "returned", value |-> r.value,
                                      error |-> NoException]
                     /\ UNCHANGED <<attempt, sleeps, last_error>>
                ELSE IF Retryable(r.raised.class)
                THEN /\ last_error' = r.raised
                     /\ IF MoreAttempts(attempt, max_retries)
                        THEN /\ sleeps' = Append(sleeps,
                                                 WaitTime(retry_delay,
                                                          attempt))
                             /\ attempt' = attempt + 1
                             /\ UNCHANGED generated
                        ELSE /\ generated' =
                                  [state |-> "raised", value |-> <<>>,
                                   error |-> Error("RuntimeError",
                                       <<"Max retries exceeded: ">>
                                       \o Str(r.raised))]
                             /\ UNCHANGED <<attempt, sleeps>>
                ELSE /\ generated' = [state |-> "raised", value |-> <<>>,
                                      error |-> r.raised]
                     /\ UNCHANGED <<attempt, sleeps, last_error>>
    /\ UNCHANGED <<max_retries, retry_delay>>
    /\ UNCHANGED <<callVars, runs, disk, httpVars, authVars>>

\* lines 301-302: the loop has run out of values
Exhausted ==
    /\ generated.state = "loop"
    /\ attempt \notin AttemptRange(max_retries)
    /\ generated' = [state |-> "raised", value |-> <<>>,
                     error |-> Error("RuntimeError",
                                     <<"Failed to generate content: ">>
                                     \o (IF last_error = NoException
                                         THEN <<"None">>
                                         ELSE Str(last_error)))]
    /\ UNCHANGED <<max_retries, retry_delay, attempt, calls, sleeps,
                   last_error>>
    /\ UNCHANGED <<callVars, runs, disk, httpVars, authVars>>

NextRetry == Attempt \/ Exhausted

SpecRetry == InitRetry /\ [][NextRetry]_vars

\* the interpreter keeps running the loop, and every call of the model and
\* every sleep ends
SpecRetryLive == SpecRetry /\ WF_vars(NextRetry)

\* ------------------------------------------------------------------------
\* From the model's reply to the slate: generate_metadata, and
\* generate_final_video on the record it returned
\* ------------------------------------------------------------------------

\* the arguments of generate_metadata that it stores in the record
InputMetadata ==
    [event_context |-> "context", location |-> "Gaza",
     date |-> "October 19, 2024", source |-> "source",
     restrictions |-> "Access all"]

\* lines 446-460: the record generate_metadata returns when
\* _generate_with_retry returned result
generate_metadata(result_) == [input_metadata |-> InputMetadata] @@ result_

\* a clip is about to be analysed, and then slated with the record the
\* analysis gives
InitMetadata ==
    /\ guid = <<"1", "2", "3", "4", "-", "5", "6", "7", "8", "-", "9", "A", "B", "C">>
    /\ metadata = EmptyDict
    /\ cleanup \in BOOLEAN
    /\ clip = Clip(1920, 1080, 25, 1, 105, "value", TRUE)
    /\ files = {BackgroundImagePath, OriginalVideoPath}
    /\ pc = "idle"
    /\ valid = FALSE
    /\ edit_number = <<>>
    /\ video_info = NoInfo
    /\ resolution = <<0, 0>>
    /\ fps = 0
    /\ duration = None
    /\ duration_str = <<>>
    /\ duration_with_slate = <<>>
    /\ slate_gen = <<0, 0>>
    /\ slate_image = <<0, 0>>
    /\ synth_args = NoArgs
    /\ segment = NoSegment
    /\ final_video = <<>>
    /\ result = NoResult
    /\ raised = "none"
    /\ steps = <<>>
    /\ procs = <<>>
    /\ written = {}
    /\ deleted = {}
    /\ cleanup_error = FALSE
    /\ sound = <<>>
    /\ slug = <<>>
    /\ output_video_path = OutputVideoPath
    /\ message = <<>>
    /\ stdout = <<>>
    /\ runs = <<>>
    /\ disk = <<>>
    /\ HttpIdle
    /\ AuthIdle
    /\ max_retries \in 0 .. MaxRetries
    /\ retry_delay = 5
    /\ attempt = 0
    /\ calls = <<>>
    /\ sleeps = <<>>
    /\ last_error = NoException
    /\ generated = [state |-> "loop", value |-> <<>>, error |-> NoException]

\* lines 446-471: _generate_with_retry has ended; generate_metadata returns
\* the record, which becomes the metadata of generate_final_video, or ends
\* with the exception
GenerateMetadata ==
    /\ pc = "idle"
    /\ generated.state \in {"returned", "raised"}
    /\ IF generated.state = "returned"
       THEN /\ metadata' = generate_metadata(generated.value)
            /\ pc' = "Validating"
            /\ UNCHANGED raised
       ELSE /\ raised' = generated.error.class
            /\ pc' = "NoMetadata"
            /\ UNCHANGED metadata
    /\ UNCHANGED <<guid, cleanup, clip, files, valid, edit_number,
                   video_info, resolution, fps, duration, duration_str,
                   duration_with_slate, slate_gen, slate_image, synth_args,
                   segment, final_video, result, steps, procs, written,
                   deleted, cleanup_error, sound, slug, message, stdout,
                   output_video_path>>
    /\ UNCHANGED <<runs, disk>>
    /\ UNCHANGED serviceVars

NextMetadata ==
    \/ Attempt
    \/ Exhausted
    \/ GenerateMetadata
    \/ Next

SpecMetadata == InitMetadata /\ [][NextMetadata]_vars

\* ------------------------------------------------------------------------
\* Thomson Reuters authentication (modules/auth.py)
\* ------------------------------------------------------------------------

\* `not x` for an Optional[str]
Falsy(x) == x.t = "none" \/ x.s = ""

\* the values the fields of a reply are given to hold
TokenValues == {NoneStr, Text(""), Text("t1")}
ProjectValues == {NoneStr, Text("p")}
RegionValues == {NoneStr, Text("r")}

\* the body of a 200 reply: a JSON object; a JSON array; no JSON at all,
\* for which response.json() raises requests' JSONDecodeError (a
\* RequestException, requests 2.27 and later) or the json module's (a
\* ValueError, earlier versions)
ReplyBodies ==
    [form : {"object"}, token : TokenValues, project_id : ProjectValues,
     region : RegionValues, decode : {"none"}]
    \cup {[NoBody EXCEPT !.form = "array"]}
    \cup {[NoBody EXCEPT !.form = "notjson", !.decode = d] :
             d \in {"requests.JSONDecodeError", "JSONDecodeError"}}

\* what requests.post is given to do: raise, or return a response
TokenReplies ==
    {[NoReply EXCEPT !.raises = cls] :
        cls \in {"Timeout", "requests.ConnectionError", "TooManyRedirects"}}
    \cup {[NoReply EXCEPT !.status = st] : st \in {401, 403, 429, 500}}
    \cup {[NoReply EXCEPT !.status = 200, !.body = b] : b \in ReplyBodies}

\* lines 110-115: the exception raised for a status code
StatusError_auth(status_code) ==
    CASE status_code \in {401, 403} ->
           Error("AuthenticationError", <<"Invalid workspace credentials">>)
      [] status_code = 429 ->
           Error("AuthenticationError", <<"Rate limit exceeded">>)
      [] OTHER -> NoException
StatusError(status_code) ==
    CASE status_code = 401 ->
           Error("AuthenticationError", <<"Invalid workspace credentials">>)
      [] status_code = 403 ->
           Error("WorkspaceError",
                 <<"Workspace does not have access to this model">>)
      [] status_code = 429 ->
           Error("AuthenticationError", <<"Rate limit exceeded">>)
      [] OTHER -> NoException

\* the end of a method: the fields it leaves, what it raised, what it
\* returned
Raise(self, e) == [self |-> self, raised |-> e, value |-> NoneStr]

\* lines 91-132: the try block of get_token, given what requests.post does
\* and the time
get_token_try(self, reply, clock) ==
    IF reply.raises # "none"
    THEN Raise(self, Error(reply.raises, <<reply.raises>>))
    ELSE IF StatusError(reply.status) # NoException
    THEN Raise(self, StatusError(reply.status))
    ELSE IF reply.status >= 400
    THEN Raise(self, Error("HTTPError", <<"Server Error">>))
    ELSE IF reply.body.form = "notjson"
    THEN Raise(self, Error(reply.body.decode, <<"Expecting value">>))
    ELSE IF reply.body.form = "array"
    THEN Raise(self, Error("AttributeError",
                           <<"'list' object has no attribute 'get'">>))
    ELSE With([self EXCEPT !.token = reply.body.token],
              LAMBDA s1 :
                  IF Falsy(s1.token)
                  THEN Raise(s1, Error("AuthenticationError",
                                       <<"Token not found in response">>))
                  ELSE [self |-> [s1 EXCEPT
                                    !.project_id = reply.body.project_id,
                                    !.region = reply.body.region,
                                    !.token_timestamp = clock],
                        raised |-> NoException,
                        value |-> s1.token])

\* lines 80-142: get_token, the try block and its except clauses
get_token(self, reply, clock) ==
    With(get_token_try(self, reply, clock),
         LAMBDA r :
             IF IsInstance(r.raised.class, "Timeout")
             THEN Raise(r.self, Error("AuthenticationError",
                                      <<"Authentication service timeout">>))
             ELSE IF IsInstance(r.raised.class, "requests.ConnectionError")
             THEN Raise(r.self,
                        Error("AuthenticationError",
                              <<"Cannot connect to authentication service">>))
             ELSE IF IsInstance(r.raised.class, "RequestException")
             THEN Raise(r.self,
                        Error("AuthenticationError",
                              <<"Failed to retrieve authentication token: ">>
                              \o Str(r.raised)))
             ELSE r)

\* line 164: if not self._token
NeedsToken_always(self) == TRUE
NeedsToken(self) == Falsy(self.token)

\* lines 154-175: get_credentials; with the end of the method, the number
\* of token requests it made and the record it returned
get_credentials(self, reply, clock) ==
    With(IF NeedsToken(self) THEN get_token(self, reply, clock)
         ELSE [self |-> self, raised |-> NoException, value |-> NoneStr],
         LAMBDA r :
             [self |-> r.self,
              requests |-> IF NeedsToken(self) THEN 1 ELSE 0,
              raised |->
                  IF r.raised # NoException THEN r.raised
                  ELSE IF \/ Falsy(r.self.token)
                          \/ Falsy(r.self.project_id)
                          \/ Falsy(r.self.region)
                  THEN Error("RuntimeError",
                             <<"Incomplete credentials - token, project_id, or region missing">>)
                  ELSE NoException,
              credentials |->
                  IF /\ r.raised = NoException
                     /\ ~Falsy(r.self.token)
                     /\ ~Falsy(r.self.project_id)
                     /\ ~Falsy(r.self.region)
                  THEN [token |-> r.self.token,
                        project_id |-> r.self.project_id,
                        region |-> r.self.region]
                  ELSE NoCredentials])

\* lines 177-184
is_token_valid(self) == self.token # NoneStr

\* lines 186-197
get_token_age_minutes(self, clock) ==
    IF self.token_timestamp = NoTimestamp
    THEN None
    ELSE Num(clock - self.token_timestamp)

\* the fields of the instance
Self == [token |-> token, project_id |-> project_id, region |-> region,
         token_timestamp |-> token_timestamp]

\* the fields become those of s
Becomes(s) ==
    /\ token' = s.token
    /\ project_id' = s.project_id
    /\ region' = s.region
    /\ token_timestamp' = s.token_timestamp

TickMinutes == 25

\* the auth module has been imported and the clock runs
InitAuth ==
    /\ CallIdle
    /\ runs = <<>>
    /\ disk = <<>>
    /\ HttpIdle
    /\ RetryIdle
    /\ AuthIdle

\* lines 204-239: initialize_auth, in an environment that sets WORKSPACE_ID
\* and CREDENTIALS_URL or lacks one (lines 66-71)
InitializeAuth ==
    /\ \E configured \in BOOLEAN, reply \in TokenReplies :
           IF ~configured
           THEN /\ auth_call' =
                     [NoAuthCall EXCEPT
                        !.method = "initialize_auth",
                        !.raised = Error("ValueError",
                            <<"WORKSPACE_ID not found in environment variables">>)]
                /\ UNCHANGED <<auth_instance, token, project_id, region,
                               token_timestamp, initialized>>
           ELSE \E r \in {get_token(NewAuth, reply, now)} :
                   /\ auth_instance' = "ThomsonReutersAuth"
                   /\ Becomes(r.self)
                   /\ auth_call' = [NoAuthCall EXCEPT
                                      !.method = "initialize_auth",
                                      !.requests = 1,
                                      !.reply = reply,
                                      !.raised = r.raised]
                   /\ initialized' = (initialized \/ r.raised = NoException)
    /\ UNCHANGED now
    /\ UNCHANGED <<callVars, runs, disk, httpVars, retryVars>>

\* lines 242-256: get_auth_instance
GetAuthInstance ==
    /\ auth_call' =
          [NoAuthCall EXCEPT
             !.method = "get_auth_instance",
             !.raised = IF auth_instance = "None"
                        THEN Error("RuntimeError",
                                   <<"Authentication not initialized. Call initialize_auth() first.">>)
                        ELSE NoException]
    /\ UNCHANGED <<auth_instance, token, project_id, region, token_timestamp,
                   now, initialized>>
    /\ UNCHANGED <<callVars, runs, disk, httpVars, retryVars>>

\* a call of get_token on the instance
GetToken ==
    /\ auth_instance # "None"
    /\ \E reply \in TokenReplies :
          \E r \in {get_token(Self, reply, now)} :
              /\ Becomes(r.self)
              /\ auth_call' = [NoAuthCall EXCEPT
                                 !.method = "get_token",
                                 !.held = token,
                                 !.requests = 1,
                                 !.reply = reply,
                                 !.raised = r.raised,
                                 !.value = r.value]
    /\ UNCHANGED <<auth_instance, now, initialized>>
    /\ UNCHANGED <<callVars, runs, disk, httpVars, retryVars>>

\* lines 144-152: refresh_token
RefreshToken ==
    /\ auth_instance # "None"
    /\ \E reply \in TokenReplies :
          \E r \in {get_token(Self, reply, now)} :
              /\ Becomes(r.self)
              /\ auth_call' = [NoAuthCall EXCEPT
                                 !.method = "refresh_token",
                                 !.held = token,
                                 !.requests = 1,
                                 !.reply = reply,
                                 !.raised = r.raised,
                                 !.value = r.value]
    /\ UNCHANGED <<auth_instance, now, initialized>>
    /\ UNCHANGED <<callVars, runs, disk, httpVars, retryVars>>

\* a call of get_credentials on the instance
GetCredentials ==
    /\ auth_instance # "None"
    /\ \E reply \in TokenReplies :
          \E r \in {get_credentials(Self, reply, now)} :
              /\ Becomes(r.self)
              /\ auth_call' =
                    [NoAuthCall EXCEPT
                       !.method = "get_credentials",
                       !.held = token,
                       !.requests = r.requests,
                       !.reply = IF r.requests = 0 THEN NoReply ELSE reply,
                       !.raised = r.raised,
                       !.credentials = r.credentials,
                       !.age = IF r.raised = NoException
                               THEN get_token_age_minutes(r.self, now)
                               ELSE None]
    /\ UNCHANGED <<auth_instance, now, initialized>>
    /\ UNCHANGED <<callVars, runs, disk, httpVars, retryVars>>

\* time passes
Tick ==
    /\ now < MaxTicks * TickMinutes
    /\ now' = now + TickMinutes
    /\ UNCHANGED <<auth_instance, token, project_id, region, token_timestamp,
                   auth_call, initialized>>
    /\ UNCHANGED <<callVars, runs, disk, httpVars, retryVars>>

NextAuth ==
    \/ InitializeAuth
    \/ GetAuthInstance
    \/ GetToken
    \/ RefreshToken
    \/ GetCredentials
    \/ Tick

SpecAuth == InitAuth /\ [][NextAuth]_vars

\* ------------------------------------------------------------------------
\* Properties of generate_final_video (checked under Spec)
\* ------------------------------------------------------------------------

ImagePath == SlateImagePath(edit_number)
VideoPath == SlateVideoPath(edit_number)

\* C1: the steps of a call run in the order Validating, Probing, Rendering,
\* Synthesizing, Concatenating, CleaningUp; a step only starts when every
\* step before it has ended without an exception; a call that reaches Done
\* has run each of the six steps exactly once.
C1_StepOrder ==
    /\ Len(steps) <= Len(StepOrder)
    /\ \A i \in 1..Len(steps) : steps[i].step = StepOrder[i]
    /\ \A i \in 1..(Len(steps) - 1) : steps[i].error = "none"
    /\ \A i \in 1..Len(StepOrder) :
          pc = StepOrder[i] => Len(steps) = i - 1
    /\ pc = "Done" => /\ Len(steps) = Len(StepOrder)
                      /\ steps[Len(steps)].error = "none"

C1_Witness == pc = "Done" /\ Len(steps) = 6 /\ result.success

\* C2: an exception raised by Rendering, Synthesizing or Concatenating ends
\* the call in Failed with that very exception; the failing step is the
\* last step run (no synthesis after a failed render, no concatenation
\* after a failed synthesis, no cleanup), and no result is returned.
C2_HardErrorFails ==
    \A i \in 1..Len(steps) :
        (/\ steps[i].step \in {"Rendering", "Synthesizing", "Concatenating"}
         /\ steps[i].error # "none")
        => /\ pc = "Failed"
           /\ raised = steps[i].error
           /\ i = Len(steps)
           /\ result = NoResult
           /\ deleted = {}
           /\ ~cleanup_error
           /\ steps[i].step = "Rendering"
                 => synth_args = NoArgs /\ segment = NoSegment
                    /\ Len(procs) = 1
           /\ steps[i].step = "Synthesizing"
                 => final_video = <<>> /\ Len(procs) = 2

C2_Witness ==
    /\ pc = "Failed"
    /\ Len(steps) = 4
    /\ steps[4].error = "RuntimeError"
    /\ raised = "RuntimeError"

\* C3: a call whose identifier validate_guid rejects ends in Failed with
\* ValueError after the Validating step alone: no external program has been
\* run, no file written or deleted, and no edit number extracted.
C3_InvalidRejected ==
    (pc # "Validating" /\ ~valid)
    => /\ pc = "Failed"
       /\ raised = "ValueError"
       /\ Len(steps) = 1
       /\ procs = <<>>
       /\ written = {}
       /\ deleted = {}
       /\ edit_number = <<>>

C3_Witness ==
    /\ pc = "Failed"
    /\ ~valid
    /\ raised = "ValueError"
    /\ guid = <<"g", "h", "i", "j", "-", "1", "2", "3", "4">>

\* C4: when a call returns and no unlink failed, then with cleanup=True
\* neither the slate image nor the slate segment is on disk, and with
\* cleanup=False both are.
C4_CleanupEffect ==
    (pc = "Done" /\ ~cleanup_error)
    => /\ cleanup => ImagePath \notin files /\ VideoPath \notin files
       /\ ~cleanup => ImagePath \in files /\ VideoPath \in files

C4_Witness ==
    /\ pc = "Done"
    /\ cleanup
    /\ ~cleanup_error
    /\ deleted = {ImagePath, VideoPath}

\* the dict a successful call returns, from the arguments and the probe
SuccessResult ==
    [success |-> TRUE,
     edit_number |-> extract_edit_number(guid),
     final_video |-> OutputVideoPath,
     resolution |-> <<video_info.width, video_info.height>>,
     duration_with_slate |-> duration_with_slate,
     original_duration |-> duration_str]

\* C5: a failing unlink in the cleanup block does not end the call with an
\* exception: the call reaches Done and returns the same dict as a call
\* whose unlinks succeed.
C5_CleanupFailureIgnored ==
    /\ cleanup_error => pc = "Done" /\ raised = "none"
    /\ pc = "Done" => result = SuccessResult

C5_Witness ==
    /\ pc = "Done"
    /\ cleanup_error
    /\ result.success
    /\ ImagePath \in files

\* the probe of this call could not deliver a profile: ffprobe did not exit
\* with 0, or the clip has no video stream, no duration value, or a frame
\* rate with denominator 0
ProbeFailure ==
    \/ procs[1].exit # "ok"
    \/ ~clip.video
    \/ clip.duration_tag = "N/A"
    \/ clip.fps_den = 0

\* C6: get_video_info never raises: the Probing step always ends without an
\* exception and the call goes on to Rendering; when the tool fails or its
\* output cannot be parsed, the profile is 1920 x 1080, 25 fps, duration 0.
C6_ProbeNeverFails ==
    Len(steps) >= 2
    => /\ steps[2].error = "none"
       /\ Len(steps) = 2 => pc = "Rendering"
       /\ ProbeFailure
             => /\ video_info = [width |-> 1920, height |-> 1080,
                                 fps |-> 25, duration |-> 0]
                /\ resolution = <<1920, 1080>>
                /\ fps = 25

C6_Witness ==
    /\ pc = "Rendering"
    /\ procs[1].exit = "ok"
    /\ clip.duration_tag = "N/A"
    /\ video_info.width = 1920

\* C7: the SlateGenerator is constructed with, the slate image is saved at,
\* image_to_video is called with, the segment is encoded at, and the result
\* reports the width and height get_video_info returned; image_to_video is
\* called with, and the segment has, the frame rate get_video_info
\* returned; the duration asked of image_to_video is 5 seconds.
C7_ProbedProfileUsed ==
    LET probed == <<video_info.width, video_info.height>>
    IN  /\ Len(steps) >= 3 => slate_gen = probed
        /\ slate_image # <<0, 0>> => slate_image = probed
        /\ Len(steps) >= 4
              => synth_args = [duration |-> 50, fps |-> video_info.fps,
                               resolution |-> probed]
        /\ segment # NoSegment
              => /\ <<segment.width, segment.height>> = probed
                 /\ segment.fps = video_info.fps
        /\ pc = "Done" => result.resolution = probed

C7_Witness ==
    /\ pc = "Done"
    /\ result.resolution = <<1280, 720>>
    /\ segment.fps = 29
    /\ slate_image = <<1280, 720>>

\* C8: whenever a call is at Concatenating (the clip being there and
\* holding a video stream), the slate segment has the width and height of
\* the clip.
C8_SameDimensions ==
    (pc = "Concatenating" /\ OriginalVideoPath \in files /\ clip.video)
    => segment.width = clip.width /\ segment.height = clip.height

\* minutes:seconds of t tenths of a second, seconds in two digits
MinutesSeconds(t) ==
    IntToStr(t \div 600) \o <<":">>
    \o <<LowerDigits[(((t \div 10) % 60) \div 10) + 1],
         LowerDigits[(((t \div 10) % 60) % 10) + 1]>>

\* C9 as claimed: the combined duration of the result is the duration of
\* the profile get_video_info returned plus 5 seconds, as minutes:seconds.
C9_ProbedDurationPlusFive ==
    pc = "Done"
    => result.duration_with_slate = MinutesSeconds(video_info.duration + 50)

\* C9: the combined duration of the result is the duration_seconds of the
\* metadata record (0 when the record has none) plus 5 seconds, as
\* minutes:seconds.
C9_MetadataDurationPlusFive ==
    pc = "Done"
    => result.duration_with_slate =
          MinutesSeconds((IF "duration_seconds" \in DOMAIN metadata
                          THEN metadata["duration_seconds"].v ELSE 0) + 50)

C9_Witness ==
    /\ pc = "Done"
    /\ "duration_seconds" \in DOMAIN metadata
    /\ metadata["duration_seconds"] = Num(553)
    /\ video_info.duration = 105
    /\ result.duration_with_slate = <<"1", ":", "0", "0">>

\* ------------------------------------------------------------------------
\* Properties of the identifier functions (checked under SpecGuid)
\* ------------------------------------------------------------------------

HexChars == {LowerDigits[i] : i \in 1..16} \cup {UpperDigits[i] : i \in 1..16}

\* C10: validate_guid returns True exactly for the identifiers that, with
\* hyphens and spaces removed, have at least 4 characters of which the
\* first 4 are hexadecimal digits.
C10_ValidIffFourHex ==
    pc # "validate_guid"
    => LET clean == SelectSeq(guid, LAMBDA c : c \notin {"-", " "})
       IN  valid <=> /\ Len(clean) >= 4
                     /\ \A i \in 1..4 : clean[i] \in HexChars

\* C11: an identifier that has fewer than 4 characters once its hyphens and
\* spaces are removed is rejected: validate_guid returns False for it.
C11_ShortRejected ==
    (pc # "validate_guid"
     /\ Cardinality({i \in 1..Len(guid) : guid[i] \notin {"-", " "}}) < 4)
    => valid = FALSE

\* an identifier of five characters, three of them hex digits, was rejected
C11_Witness ==
    /\ pc = "returned"
    /\ guid = <<"0", "-", "a", " ", "B">>
    /\ valid = FALSE

\* the capital of a letter, any other character as it is
Capital(c) ==
    CASE c = "a" -> "A" [] c = "b" -> "B" [] c = "c" -> "C" [] c = "d" -> "D"
      [] c = "e" -> "E" [] c = "f" -> "F" [] c = "g" -> "G" [] c = "h" -> "H"
      [] c = "i" -> "I" [] c = "j" -> "J" [] c = "k" -> "K" [] c = "l" -> "L"
      [] c = "m" -> "M" [] c = "n" -> "N" [] c = "o" -> "O" [] c = "p" -> "P"
      [] c = "q" -> "Q" [] c = "r" -> "R" [] c = "s" -> "S" [] c = "t" -> "T"
      [] c = "u" -> "U" [] c = "v" -> "V" [] c = "w" -> "W" [] c = "x" -> "X"
      [] c = "y" -> "Y" [] c = "z" -> "Z" [] OTHER -> c

\* s with a hyphen put in after its first k characters
Hyphenated(s, k) == SubSeq(s, 1, k) \o <<"-">> \o SubSeq(s, k + 1, Len(s))

\* C12: for an identifier validate_guid accepts, extract_edit_number returns
\* the first 4 characters that are left when hyphens and spaces are
\* removed, in capitals ("1234-5678-9ABC" gives "1234", "ab-cd-ef-12" gives
\* "ABCD"); the same identifier in capitals, without its separators, or with
\* one more hyphen anywhere gives the same edit code.
C12_EditNumberIsPrefix ==
    (pc = "returned" /\ valid)
    => LET clean == SelectSeq(guid, LAMBDA c : c \notin {"-", " "})
       IN  /\ edit_number = [i \in 1..4 |-> Capital(clean[i])]
           /\ guid = <<"1", "2", "3", "4", "-", "5", "6", "7", "8", "-",
                       "9", "A", "B", "C">>
              => edit_number = <<"1", "2", "3", "4">>
           /\ guid = <<"a", "b", "-", "c", "d", "-", "e", "f", "-", "1",
                       "2">>
              => edit_number = <<"A", "B", "C", "D">>
           /\ extract_edit_number([i \in 1..Len(guid) |-> Capital(guid[i])])
              = edit_number
           /\ extract_edit_number(clean) = edit_number
           /\ \A k \in 0..Len(guid) :
                 extract_edit_number(Hyphenated(guid, k)) = edit_number

C12_Witness ==
    /\ pc = "returned"
    /\ valid
    /\ guid = <<"a", "b", "-", "c", "d", "-", "e", "f", "-", "1", "2">>
    /\ edit_number = <<"A", "B", "C", "D">>

\* ------------------------------------------------------------------------
\* More properties of generate_final_video (checked under Spec)
\* ------------------------------------------------------------------------

\* C13: the edit code a call works with (the edit code of an identifier
\* validate_guid accepted) has exactly 4 characters, each one of 0-9, A-F.
C13_EditCodeFourHex ==
    (pc \notin {"Validating", "Failed"} /\ valid)
    => /\ Len(edit_number) = 4
       /\ \A i \in 1..Len(edit_number) :
             edit_number[i] \in {UpperDigits[k] : k \in 1..16}

\* C15: a call made for an accepted identifier while the source clip or the
\* background image is not on disk ends with a not-found error, and no
\* external program has been run by then.
C15_MissingAssetFailsFast ==
    (pc \in {"Done", "Failed"} /\ valid
     /\ (OriginalVideoPath \notin files \/ BackgroundImagePath \notin files))
    => /\ pc = "Failed"
       /\ raised = "FileNotFoundError"
       /\ procs = <<>>

\* the steps that run an external program
ToolSteps == {"Probing", "Synthesizing", "Concatenating"}

\* C17: no step of a call is run again: every step is in the log of steps
\* at most once, and ffprobe, the encoding ffmpeg and the concatenating
\* ffmpeg have each been run once for the step that uses them.  An ffmpeg
\* that exits non-zero is the last program of the call: the call ends at
\* once with a RuntimeError whose message ends with what ffmpeg wrote to
\* its standard error.
C17_NoRetry ==
    /\ \A i \in 1..Len(steps), j \in 1..Len(steps) :
          i # j => steps[i].step # steps[j].step
    /\ Len(procs) = Cardinality({i \in 1..Len(steps) :
                                    steps[i].step \in ToolSteps})
    /\ Cardinality({i \in 1..Len(procs) : procs[i].prog = "ffprobe"}) <= 1
    /\ Cardinality({i \in 1..Len(procs) : procs[i].prog = "ffmpeg"}) <= 2
    /\ \A i \in 1..Len(procs) :
          (procs[i].prog = "ffmpeg" /\ procs[i].exit = "nonzero")
          => /\ i = Len(procs)
             /\ pc = "Failed"
             /\ raised = "RuntimeError"
             /\ steps[Len(steps)].step \in {"Synthesizing", "Concatenating"}
             /\ steps[Len(steps)].error = "RuntimeError"
             /\ Len(message) > Len(procs[i].stderr)
             /\ SubSeq(message, Len(message) - Len(procs[i].stderr) + 1,
                       Len(message)) = procs[i].stderr

\* the concatenating ffmpeg exited non-zero with a message, after ffprobe
\* and the encoding ffmpeg had each run once
C17_Witness ==
    /\ pc = "Failed"
    /\ Len(procs) = 3
    /\ procs[3].exit = "nonzero"
    /\ procs[3].stderr = <<"N", "o", " ", "s", "u", "c", "h", " ", "f", "i", "l", "e">>
    /\ message = <<"F", "F", "m", "p", "e", "g", " ", "c", "o", "n", "c", "a", "t", "e", "n", "a", "t", "i", "o", "n", " ", "f", "a", "i", "l", "e", "d", ":", " ", "N", "o", " ", "s", "u", "c", "h", " ", "f", "i", "l", "e">>

\* how many times ffmpeg is run in a log of external programs
FFmpegRuns(log) == Cardinality({i \in 1..Len(log) : log[i].prog = "ffmpeg"})

\* C18 as claimed: a call that ends successfully has run ffmpeg exactly
\* three times.
C18_ThreeEncoderRuns ==
    pc = "Done" => FFmpegRuns(procs) = 3

\* C18: a call that ends successfully has run ffmpeg exactly twice, once to
\* encode the slate segment and once to concatenate, both after ffprobe;
\* with the one run of the constructor that makes three for the workflow
\* object's first call.
C18_TwoEncoderRuns ==
    pc = "Done"
    => /\ FFmpegRuns(procs) = 2
       /\ Len(procs) = 3
       /\ procs[1].prog = "ffprobe"
       /\ procs[2] = [prog |-> "ffmpeg", exit |-> "ok", stderr |-> <<>>]
       /\ procs[3] = [prog |-> "ffmpeg", exit |-> "ok", stderr |-> <<>>]
       /\ FFmpegRuns(ConstructorProcs \o procs) = 3

C18_Witness ==
    /\ pc = "Done"
    /\ result.success
    /\ FFmpegRuns(procs) = 2
    /\ final_video = OutputVideoPath

\* C20 as claimed: when ffprobe reports the frame rate of the clip as a/b
\* with b positive, the frame rate of the profile, and the one passed to
\* image_to_video, is the integer quotient of a by b, rounded down.
C20_FloorOfReportedRate ==
    (Len(steps) >= 2 /\ procs[1].exit = "ok" /\ clip.video
     /\ clip.fps_den > 0)
    => /\ video_info.fps = clip.fps_num \div clip.fps_den
       /\ synth_args # NoArgs
          => synth_args.fps = clip.fps_num \div clip.fps_den

\* C20: when ffprobe reports the frame rate of the clip as a/b with b
\* positive and the rest of its output parses (the duration is a number or
\* left out), the frame rate of the profile, and the one passed to
\* image_to_video, is the integer quotient of a by b, rounded down
\* (30000/1001 gives 29).
C20_FloorOfParsedRate ==
    (Len(steps) >= 2 /\ procs[1].exit = "ok" /\ clip.video
     /\ clip.fps_den > 0 /\ clip.duration_tag # "N/A")
    => /\ video_info.fps = clip.fps_num \div clip.fps_den
       /\ synth_args # NoArgs
          => synth_args.fps = clip.fps_num \div clip.fps_den
       /\ (clip.fps_num = 30000 /\ clip.fps_den = 1001)
          => video_info.fps = 29

C20_Witness ==
    /\ clip.fps_num = 30000
    /\ clip.fps_den = 1001
    /\ procs # <<>>
    /\ procs[1].exit = "ok"
    /\ video_info.fps = 29
    /\ synth_args.fps = 29

\* ------------------------------------------------------------------------
\* Properties of the sound field (checked under SpecAudio)
\* ------------------------------------------------------------------------

\* the languages of a list in capitals, " AND " between one and the next
RECURSIVE Listed(_)
Listed(l) ==
    IF Len(l) = 1 THEN [i \in 1..Len(l[1]) |-> Capital(l[1][i])]
    ELSE [i \in 1..Len(l[1]) |-> Capital(l[1][i])]
         \o <<" ", "A", "N", "D", " ">> \o Listed(Tail(l))

\* the description a holds the word "mute" in some mix of cases
SaysMute(a) ==
    \E i \in 1..(Len(a) - 3) :
        /\ a[i] \in {"m", "M"}
        /\ a[i + 1] \in {"u", "U"}
        /\ a[i + 2] \in {"t", "T"}
        /\ a[i + 3] \in {"e", "E"}

\* C14: the sound field is MUTE when the audio description is empty (or
\* missing) or holds "mute" in any mix of cases, whatever the languages;
\* otherwise, with a non-empty list of languages, it is NATURAL WITH ...
\* SPEECH, the languages in capitals, in list order, " AND " between them;
\* otherwise it is NATURAL.
C14_SoundField ==
    pc = "returned"
    => LET a == IF "audio_analysis" \in DOMAIN metadata
                THEN metadata["audio_analysis"] ELSE <<>>
           l == IF "languages_detected" \in DOMAIN metadata
                THEN metadata["languages_detected"] ELSE <<>>
       IN  sound = IF a = <<>> \/ SaysMute(a)
                   THEN <<"M", "U", "T", "E">>
                   ELSE IF Len(l) > 0
                        THEN <<"N", "A", "T", "U", "R", "A", "L", " ", "W", "I", "T", "H", " ">>
                             \o Listed(l) \o <<" ", "S", "P", "E", "E", "C", "H">>
                        ELSE <<"N", "A", "T", "U", "R", "A", "L">>

\* a description with "mUte" in it and two languages gave MUTE, and a
\* description without gave the two languages in list order
C14_Witness ==
    /\ pc = "returned"
    /\ "audio_analysis" \in DOMAIN metadata
    /\ "languages_detected" \in DOMAIN metadata
    /\ metadata["languages_detected"] = <<<<"A", "r", "a", "b", "i", "c">>, <<"e", "n">>>>
    /\ \/ /\ metadata["audio_analysis"] = <<"x", "m", "U", "t", "e">>
          /\ sound = <<"M", "U", "T", "E">>
       \/ /\ metadata["audio_analysis"] = <<"m", "U", "t", "x", "e">>
          /\ sound = <<"N", "A", "T", "U", "R", "A", "L", " ", "W", "I", "T", "H", " ", "A", "R", "A", "B", "I", "C", " ", "A", "N", "D", " ", "E", "N", " ", "S", "P", "E", "E", "C", "H">>

\* ------------------------------------------------------------------------
\* Properties of two calls at the same time (checked under SpecPair)
\* ------------------------------------------------------------------------

\* the paths of the work directory call r has written, read or unlinked
TouchedPaths(r) == {a.path : a \in runs[r].touched}

\* C16: two calls at the same time on one work directory whose edit codes
\* differ touch disjoint sets of paths in it, and neither ever reads,
\* overwrites or unlinks a file the other wrote.
C16_DisjointIntermediates ==
    \A r \in Runs, s \in Runs :
        (/\ r # s
         /\ runs[r].edit_number # <<>>
         /\ runs[s].edit_number # <<>>
         /\ runs[r].edit_number # runs[s].edit_number)
        => /\ TouchedPaths(r) \cap TouchedPaths(s) = {}
           /\ \A a \in runs[r].touched : a.owner \in {0, r}

\* both calls have their slate image in the work directory, call 1 is about
\* to encode its segment while call 2, after its own, is cleaning up
C16_Witness ==
    /\ runs[1].edit_number = <<"1", "2", "3", "4">>
    /\ runs[2].edit_number = <<"A", "B", "C", "D">>
    /\ runs[1].pc = "Synthesizing"
    /\ runs[2].pc = "CleaningUp"
    /\ runs[2].cleanup
    /\ DOMAIN disk = {SlateImagePath(runs[1].edit_number),
                      SlateImagePath(runs[2].edit_number),
                      SlateVideoPath(runs[2].edit_number)}

\* ------------------------------------------------------------------------
\* Properties of get_video_info (checked under SpecProbe)
\* ------------------------------------------------------------------------

\* the comma-separated fields of what ffprobe printed
Fields == Split(Strip(stdout), ",")

\* C19 as claimed: when ffprobe's output does not have exactly four
\* comma-separated fields, get_video_info returns the fallback profile.
C19_FourFieldsOrFallback ==
    (pc = "returned" /\ procs[1].exit = "ok" /\ Len(Fields) # 4)
    => video_info = Fallback

\* C19: get_video_info returns the fallback profile when the width or the
\* height field is missing or no integer, when the frame rate field is
\* missing or is a pair a/b that is not two integers with b non-zero, or
\* when there is a fourth field that is no number.  Every other output
\* gives a profile built from its fields: duration 0 when there are only
\* three fields, 25 frames per second when the frame rate field is no pair
\* a/b, and whatever follows the fourth field is ignored.
C19_LenientParse ==
    (pc = "returned" /\ procs[1].exit = "ok")
    => LET n == Len(Fields)
           w == PyInt(Fields[1], 10)
           h == PyInt(Fields[2], 10)
           ab == Split(Fields[3], "/")
           a == PyInt(ab[1], 10)
           b == PyInt(ab[2], 10)
           d == PyFloat(Fields[4])
           parses ==
               /\ n >= 3
               /\ w.ok
               /\ h.ok
               /\ Len(ab) = 2 => (a.ok /\ b.ok /\ b.val # 0)
               /\ n >= 4 => d.ok
       IN  IF parses
           THEN video_info =
                  [width |-> w.val,
                   height |-> h.val,
                   fps |-> IF Len(ab) # 2 THEN 25
                           ELSE IF b.val > 0 THEN a.val \div b.val
                           ELSE (0 - a.val) \div (0 - b.val),
                   duration |-> IF n >= 4 THEN d.val ELSE 0]
           ELSE video_info = Fallback

\* an output of three fields gave a profile with the duration 0
C19_Witness ==
    /\ pc = "returned"
    /\ procs[1].exit = "ok"
    /\ stdout = <<"6", "4", "0", ",", "3", "6", "0", ",", "3", "0", "/", "1", "\n">>
    /\ video_info = [width |-> 640, height |-> 360, fps |-> 30,
                     duration |-> 0]

\* ------------------------------------------------------------------------
\* Properties of image_to_video (checked under SpecSegment)
\* ------------------------------------------------------------------------

\* C21: the segment image_to_video has written lasts exactly the duration
\* that was passed to it.
C21_SegmentLastsDuration ==
    (pc = "returned" /\ raised = "none")
    => segment.duration = synth_args.duration

\* C22: a generate-slate request whose identifier fails validation is
\* answered with HTTP 400 carrying the invalid-identifier message, never
\* with a server error (stated for an application whose workflow was
\* initialized at startup).
C22_InvalidIdentifierIs400 ==
    (/\ slate_workflow = "SlateWorkflow"
     /\ request.op = "generate_slate"
     /\ response # NoResponse
     /\ ~validate_guid(request.guid))
    => (response.status = 400 /\ response.detail = InvalidGuidDetail)

\* the request names a metadata file or a clip that does not exist, and
\* nothing before that lookup stops the handler
NamesMissingFile ==
    \/ /\ request.op = "generate_slate"
       /\ validate_guid(request.guid)
       /\ \/ request.metadata_file = "missing"
          \/ /\ request.metadata_file \in {"array", "object"}
             /\ request.original_video = "missing"
    \/ /\ request.op = "get_output"
       /\ request.filename = "missing"

\* C23: a request that names a metadata file or source clip that does not
\* exist is answered with HTTP 404, by generate-slate and by the fetch of
\* one metadata output (stated for an application whose workflow was
\* initialized at startup).
C23_MissingFileIs404 ==
    (/\ slate_workflow = "SlateWorkflow"
     /\ response # NoResponse
     /\ NamesMissingFile)
    => response.status = 404

\* the exception the i-th call of the model ended the try block with
CallRaised(i) == generate_try(calls[i]).raised

\* the i-th call ended with a connection error
ConnectionFailure(i) ==
    CallRaised(i).class \in {"BrokenPipeError", "ConnectionError", "OSError",
                             "TimeoutError", "FileNotFoundError"}

\* C24: for max_retries = n >= 1 the model is called at most n times; the
\* function returns the parsed result of the first call that succeeds and
\* calls the model no more; it raises RuntimeError after exactly n
\* consecutive connection errors; it always ends.
C24_StateOK ==
    max_retries >= 1 =>
        /\ Len(calls) <= max_retries
        /\ generated.state = "returned" =>
              /\ CallRaised(Len(calls)) = NoException
              /\ generated.value
                   = parse_json_response(calls[Len(calls)].text, "clip").value
              /\ \A i \in 1 .. (Len(calls) - 1) : ConnectionFailure(i)
        /\ (calls # <<>> /\ \A i \in 1 .. Len(calls) : ConnectionFailure(i))
              => IF Len(calls) = max_retries
                 THEN /\ generated.state = "raised"
                      /\ generated.error.class = "RuntimeError"
                      /\ generated.error.detail[1] = "Max retries exceeded: "
                 ELSE generated.state = "loop"

C24_BoundedRetry ==
    /\ []C24_StateOK
    /\ [][generated.state # "loop" => calls' = calls]_vars
    /\ <>(generated.state \in {"returned", "raised"})

C24_Witness ==
    /\ max_retries = 3
    /\ Len(calls) = 3
    /\ \A i \in 1 .. 3 : ConnectionFailure(i)
    /\ generated.state = "raised"
    /\ generated.error.class = "RuntimeError"

\* C25: only connection errors are retried: an exception of any other
\* class ends the function at once with that same exception, on whichever
\* attempt it occurs, with no further call and no wait.
C25_OnlyConnectionErrorsRetried ==
    \A i \in 1 .. Len(calls) :
        (CallRaised(i) # NoException /\ ~ConnectionFailure(i))
        => /\ i = Len(calls)
           /\ generated.state = "raised"
           /\ generated.error = CallRaised(i)
           /\ Len(sleeps) = i - 1

C25_Witness ==
    /\ Len(calls) = 2
    /\ CallRaised(2).class = "ValueError"
    /\ generated.state = "raised"
    /\ generated.error.class = "ValueError"

\* the last call of the auth module was a token request through get_token
TokenRequested == auth_call.method \in {"get_token", "refresh_token"}

Typed == {"AuthenticationError", "WorkspaceError"}

Present(x) == x.t = "str" /\ x.s # ""

\* C27: get_credentials returns a record whose token, project_id and
\* region are all present, or raises; it makes exactly one token request
\* when it holds no token and none when it holds one; when no token request
\* of its own fails, it raises RuntimeError exactly when token, project_id
\* or region is missing.
C27_CredentialsCompleteOrRaise ==
    auth_call.method = "get_credentials" =>
        LET class == auth_call.raised.class
            creds == auth_call.credentials
        IN  /\ IF class = "none"
               THEN /\ Present(creds.token)
                    /\ Present(creds.project_id)
                    /\ Present(creds.region)
                    /\ creds = [token |-> token, project_id |-> project_id,
                                region |-> region]
               ELSE creds = NoCredentials
            /\ auth_call.requests = IF Present(auth_call.held) THEN 0 ELSE 1
            /\ class \in {"none", "RuntimeError"}
                  => (class = "RuntimeError"
                      <=> ~(/\ Present(token)
                            /\ Present(project_id)
                            /\ Present(region)))
            /\ class \notin {"none", "RuntimeError"}
                  => (auth_call.requests = 1 /\ ~Present(token))

C27_Witness ==
    /\ auth_call.method = "get_credentials"
    /\ Present(auth_call.held)
    /\ auth_call.requests = 0
    /\ auth_call.raised.class = "RuntimeError"
    /\ ~Present(region)

\* C28: get_auth_instance raises RuntimeError whenever no call of
\* initialize_auth has completed successfully, also after a call of
\* initialize_auth that failed.
C28_UninitializedRaises ==
    (auth_call.method = "get_auth_instance" /\ ~initialized)
    => auth_call.raised.class = "RuntimeError"

\* C29: in every state of an instance, get_token_age_minutes returns None
\* exactly when no token is held, that is exactly when is_token_valid() is
\* False.
C29_AgeNoneIffNoToken ==
    auth_instance # "None"
    => ((get_token_age_minutes(Self, now) = None) <=> ~is_token_valid(Self))

\* C30: get_credentials never hands out a token older than 50 minutes.
C30_CredentialsNeverOlderThan50 ==
    (auth_call.method = "get_credentials" /\ auth_call.raised = NoException)
    => (auth_call.age # None /\ auth_call.age.v <= 50)

\* the seconds a minutes:seconds label denotes
LabelSeconds(label) ==
    DigitsValue(SubSeq(label, 1, Len(label) - 3), 10, 0) * 60
    + DigitsValue(SubSeq(label, Len(label) - 1, Len(label)), 10, 0)

\* the two digits after the colon of a label, as a number
LabelSecondsField(label) ==
    DigitsValue(SubSeq(label, Len(label) - 1, Len(label)), 10, 0)

\* C31: for every non-negative duration d of the metadata record the
\* original-duration label is floor(d/60), a colon and floor(d mod 60) in
\* two digits (00..59); the combined-duration label is the same formatting
\* of d + 5; the two labels denote durations exactly 5 seconds apart; a
\* missing or zero duration gives "0:00" and "0:05".
C31_DurationLabels ==
    pc = "returned" =>
        LET d == IF "duration_seconds" \in DOMAIN metadata
                 THEN metadata["duration_seconds"].v ELSE 0
        IN  /\ duration_str = MinutesSeconds(d)
            /\ duration_with_slate = MinutesSeconds(d + 50)
            /\ Len(duration_str) >= 4
            /\ duration_str[Len(duration_str) - 2] = ":"
            /\ duration_with_slate[Len(duration_with_slate) - 2] = ":"
            /\ LabelSecondsField(duration_str) \in 0 .. 59
            /\ LabelSecondsField(duration_with_slate) \in 0 .. 59
            /\ LabelSeconds(duration_str) = d \div 10
            /\ LabelSeconds(duration_with_slate)
                 = LabelSeconds(duration_str) + 5
            /\ d = 0 => /\ duration_str = <<"0", ":", "0", "0">>
                        /\ duration_with_slate = <<"0", ":", "0", "5">>

C31_Witness ==
    /\ pc = "returned"
    /\ metadata = [duration_seconds |-> Num(575)]
    /\ duration_str = <<"0", ":", "5", "7">>
    /\ duration_with_slate = <<"1", ":", "0", "2">>

RECURSIVE SumOf(_)
SumOf(seq) == IF seq = <<>> THEN 0 ELSE Head(seq) + SumOf(Tail(seq))

\* C32: the wait after the k-th connection error (k < max_retries) is
\* retry_delay * k seconds; over n = max_retries failed attempts the waits
\* total retry_delay * n(n-1)/2; there is no wait after the final failed
\* attempt or after a success.
C32_LinearBackoff ==
    /\ \A k \in 1 .. Len(sleeps) :
          /\ sleeps[k] = retry_delay * k
          /\ k < max_retries
          /\ k <= Len(calls)
          /\ ConnectionFailure(k)
    /\ Len(sleeps) = IF generated.state = "loop" \/ calls = <<>>
                     THEN Len(calls)
                     ELSE Len(calls) - 1
    /\ (/\ generated.state = "raised"
        /\ Len(calls) = max_retries
        /\ \A i \in 1 .. Len(calls) : ConnectionFailure(i))
       => 2 * SumOf(sleeps) = retry_delay * max_retries * (max_retries - 1)

C32_Witness ==
    /\ max_retries = 3
    /\ retry_delay = 5
    /\ generated.state = "raised"
    /\ \A i \in 1 .. 3 : i <= Len(calls) /\ ConnectionFailure(i)
    /\ sleeps = <<5, 10>>

\* C33: once concatenate_videos has succeeded and the final artifact is
\* written, no error is raised: the call goes on to cleanup and Done, for
\* every metadata record, one with a null duration_seconds included.
C33_NoErrorAfterArtifact ==
    (final_video # <<>> /\ OutputVideoPath \in written)
    => (pc \in {"CleaningUp", "Done"} /\ raised = "none")

\* the named step of this call has ended without an exception
StepSucceeded(name) ==
    \E i \in 1..Len(steps) : steps[i].step = name /\ steps[i].error = "none"

\* C34: a call that ends in Failed has deleted no file: the slate image of
\* a Rendering step that succeeded and the slate segment of a Synthesizing
\* step that succeeded are still on disk, with cleanup=True as well.
C34_FailedRunsDeleteNothing ==
    pc = "Failed"
    => /\ deleted = {}
       /\ StepSucceeded("Rendering") => ImagePath \in files
       /\ StepSucceeded("Synthesizing") => VideoPath \in files

\* the concatenating ffmpeg failed in a call with cleanup=True, and both
\* intermediate files are on disk
C34_Witness ==
    /\ pc = "Failed"
    /\ cleanup
    /\ raised = "RuntimeError"
    /\ StepSucceeded("Synthesizing")
    /\ {ImagePath, VideoPath} \subseteq files


\* C35: the cleanup block unlinks the slate image first and the slate
\* segment second, and the first failing unlink ends it: a returned call
\* with cleanup=True whose image is still on disk has deleted nothing and
\* has both intermediate files on disk, the segment is never gone while the
\* image is there, and the call returns its success dict all the same.
C35_ImageFirstOneBlock ==
    (pc = "Done" /\ cleanup)
    => /\ ImagePath \in files
          => /\ cleanup_error
             /\ VideoPath \in files
             /\ deleted = {}
       /\ VideoPath \notin files => ImagePath \notin files
       /\ raised = "none"
       /\ result.success

\* unlinking the slate image failed: nothing is deleted, both files are on
\* disk and the call has returned success
C35_Witness ==
    /\ pc = "Done"
    /\ cleanup
    /\ cleanup_error
    /\ deleted = {}
    /\ {ImagePath, VideoPath} \subseteq files
    /\ result.success

\* the first four characters of an identifier without hyphens and spaces
FirstFour(g) == Prefix(RemoveChar(RemoveChar(g, "-"), " "), 4)

\* C36: two calls on one work directory whose identifiers differ but have
\* the same first four stripped characters have the same edit code, and
\* every file of the work directory either of them writes, reads or unlinks
\* is the slate image or the slate segment of that one code.  (That one
\* call's cleanup then removes the image the other is about to read is the
\* state C36_Witness.)
C36_SharedIntermediates ==
    \A r \in Runs, s \in Runs :
        (/\ r # s
         /\ runs[r].guid # runs[s].guid
         /\ FirstFour(runs[r].guid) = FirstFour(runs[s].guid)
         /\ runs[r].edit_number # <<>>
         /\ runs[s].edit_number # <<>>)
        => /\ runs[r].edit_number = runs[s].edit_number
           /\ TouchedPaths(r) \subseteq
                  {SlateImagePath(runs[s].edit_number),
                   SlateVideoPath(runs[s].edit_number)}

\* call 1 has written its slate image and is about to encode its segment
\* from it; call 2, with another identifier of the same edit code, has
\* unlinked that image in its cleanup, and the file is gone
C36_Witness ==
    /\ runs[1].guid # runs[2].guid
    /\ runs[1].edit_number = runs[2].edit_number
    /\ runs[1].pc = "Synthesizing"
    /\ runs[2].pc \in {"CleaningUpSegment", "Done"}
    /\ [op |-> "delete", path |-> SlateImagePath(runs[1].edit_number),
        owner |-> 1] \in runs[2].touched
    /\ SlateImagePath(runs[1].edit_number) \notin DOMAIN disk

\* C37: after every call that returns, for every output path and either
\* value of cleanup, the file the returned final_video names exists, and
\* nothing but the call's own slate image and slate segment was deleted.
C37_DeliverableKept ==
    pc = "Done"
    => /\ Resolve(result.final_video) \in files
       /\ deleted \subseteq {ImagePath, VideoPath}

\* the reply of the token service is a 200 response whose JSON object
\* carries no token: the field is absent, null or empty
NoTokenReply(reply) ==
    /\ reply.raises = "none"
    /\ reply.status = 200
    /\ reply.body.form = "object"
    /\ Falsy(reply.body.token)

\* the failures get_token names besides: 401, 403, 429, timeout, connection
\* error
NamedFailureReply(reply) ==
    \/ reply.raises \in {"Timeout", "requests.ConnectionError"}
    \/ reply.raises = "none" /\ reply.status \in {401, 403, 429}

\* C38: a get_token or refresh_token call that fails on a 200 response
\* without a token leaves is_token_valid() False and project_id, region and
\* the token timestamp as they were before the call; a call that fails with
\* 401, 403, 429, a timeout or a connection error leaves token, project_id,
\* region and timestamp as they were.
C38_FailedCallEffect ==
    [][(/\ auth_call'.method \in {"get_token", "refresh_token"}
        /\ auth_call'.raised # NoException)
       => /\ NoTokenReply(auth_call'.reply)
             => /\ ~is_token_valid([token |-> token',
                                     project_id |-> project_id',
                                     region |-> region',
                                     token_timestamp |-> token_timestamp'])
                /\ UNCHANGED <<project_id, region, token_timestamp>>
          /\ NamedFailureReply(auth_call'.reply)
             => UNCHANGED <<token, project_id, region, token_timestamp>>]_vars

\* the i-th call of the model answered with a text that is no JSON
NotJsonReply(i) ==
    /\ calls[i].raises = NoException
    /\ calls[i].text.form = "notjson"

\* C39: a reply of the model that is no JSON is neither retried nor raised:
\* it is the last call, no wait follows it, and _generate_with_retry
\* returns a record with an 'error' entry and the raw reply; the record
\* generate_metadata then returns has no slug, duration_seconds or
\* audio_analysis, and generate_final_video on it builds the slate with
\* UNKNOWN-SLUG, "0:00" and MUTE.
C39_UnparseableReplyDefaults ==
    \A i \in 1 .. Len(calls) :
        NotJsonReply(i)
        => /\ i = Len(calls)
           /\ Len(sleeps) = i - 1
           /\ generated.state = "returned"
           /\ "error" \in DOMAIN generated.value
           /\ generated.value["raw_response"] = calls[i].text
           /\ pc # "idle"
              => /\ pc # "NoMetadata"
                 /\ DOMAIN metadata
                      \cap {"slug", "duration_seconds", "audio_analysis"} = {}
                 /\ "error" \in DOMAIN metadata
           /\ StepSucceeded("Rendering")
              => /\ slug = <<"U", "N", "K", "N", "O", "W", "N", "-",
                             "S", "L", "U", "G">>
                 /\ duration_str = <<"0", ":", "0", "0">>
                 /\ sound = <<"M", "U", "T", "E">>

\* after one connection error the model answered with a text that is no
\* JSON; the clip has been slated from the fallback record and the call has
\* returned
C39_Witness ==
    /\ Len(calls) = 2
    /\ NotJsonReply(2)
    /\ pc = "Done"
    /\ "raw_response" \in DOMAIN metadata
    /\ slug = <<"U", "N", "K", "N", "O", "W", "N", "-", "S", "L", "U", "G">>
    /\ result.original_duration = <<"0", ":", "0", "0">>

====
